---- MODULE Spec2Model ----
(***************************************************************************)
(* Central correlation core of tuananhfr/stream-camera (backend-central):  *)
(* the history store, the edge ingestion handlers (HTTP and WebSocket),    *)
(* the admin routes, the peer message handlers and the fan-out.            *)
(*                                                                         *)
(* Every handler runs on one asyncio loop and makes its database calls     *)
(* without awaiting in between, so one handler is one atomic action.       *)
(***************************************************************************)
EXTENDS Integers, Sequences, FiniteSets, TLC

(***************************************************************************)
(* Bounds of the model                                                     *)
(***************************************************************************)
MaxClock == 2
MaxRows == 2
MaxChanges == 2
MaxNet == 2
MaxMinVotes == 3
MaxVotes == 3
MaxTicks == 8
MaxLogs == 3
MaxChannels == 3
MaxWorkerTicks == 33
MaxClients == 3
MaxReloads == 2

(***************************************************************************)
(* Values                                                                  *)
(***************************************************************************)
Centrals == {"c1", "c2"}
Edges == {"e1", "e2"}

\* NULL of a text column, of an integer column, of an event_id
NoText == <<>>
NoInt == 0 - 1
NoEventId == <<>>
NoCentral == "NULL"

\* seconds the wall clock advances between two observations
ClockStep == 30 * 60

\* plate texts as the characters an edge sends
TextA == <<"2", "9", "A", "1", "2", "3">>
TextADashed == <<"2", "9", "a", "-", "1", "2", "3">>
TextB == <<"3", "0", "G", "5", "6", "7">>
TextShort == <<"3", "0", "G">>
PlateTexts == {TextA, TextADashed, TextB, TextShort}
PlateIds == {TextA, TextB}

\* plate texts as the OCR of a camera worker reads them
TextFull == <<"2", "9", "A", "-", "1", "7", "9", ".", "9", "0">>
TextBare == <<"2", "9", "A", "1", "7", "9", "9", "0">>
TextDot == <<"2", "9", "A", "1", "7", "9", ".", "9", "0">>
TextDash == <<"2", "9", "A", "-", "1", "7", "9", "9", "0">>
TextNear == <<"2", "9", "A", "1", "7", "9", "9", "8">>

Digits == {"0", "1", "2", "3", "4", "5", "6", "7", "8", "9"}
UpperLetters == {"A", "B", "C", "D", "E", "F", "G", "H", "I", "J", "K", "L", "M",
                 "N", "O", "P", "Q", "R", "S", "T", "U", "V", "W", "X", "Y", "Z"}
UpperOf == ("a" :> "A") @@ ("g" :> "G")

\* str.upper()
Upper(text) == [i \in 1..Len(text) |->
                  IF text[i] \in DOMAIN UpperOf THEN UpperOf[text[i]] ELSE text[i]]

IsAlnumUpper(ch) == ch \in Digits \cup UpperLetters

\* str.replace(" ", "")
StripSpaces(text) == SelectSeq(text, LAMBDA ch : ch # " ")

MinPlateLen == 6

\* ParkingStateManager._normalize_plate: <<plate_id, plate_view>>, or
\* <<NoText, NoText>> when the text is empty or shorter than six characters
_normalize_plate(text) ==
  IF text = <<>> THEN <<NoText, NoText>>
  ELSE LET clean_text == SelectSeq(Upper(text), IsAlnumUpper)
       IN IF Len(clean_text) < MinPlateLen THEN <<NoText, NoText>>
          ELSE <<clean_text, Upper(text)>>

\* an event_id "<central>_<ms>_<plate>" as the parts str.split("_") yields
MkEventId(author, ms, plate) == <<author, ms, plate>>

\* P2PParkingBroadcaster.generate_event_id at wall-clock time t (seconds)
generate_event_id(central_id, t, plate) == MkEventId(central_id, t * 1000, plate)

\* P2PEventHandler._parse_timestamp_from_event_id: int(parts[1]) or None
_parse_timestamp_from_event_id(event_id) ==
  IF Len(event_id) >= 2 /\ event_id[2] \in Int THEN event_id[2] ELSE NoInt

\* dict.get(key) on a row dict that may lack the key
DictGet(d, key, default) == IF key \in DOMAIN d THEN d[key] ELSE default

SeqToSet(s) == {s[i] : i \in 1..Len(s)}

(***************************************************************************)
(* The history store: CentralDatabase and its P2P extensions.  A database  *)
(* value is [history, changes, next_id].                                   *)
(***************************************************************************)
EmptyDb == [history |-> <<>>, changes |-> <<>>, next_id |-> 1, lots |-> {}]

NewRow(id, event_id, source_central, plate_id, plate_view, entry_time, sync_status, last_location, is_anomaly, created_at) ==
  [id |-> id, event_id |-> event_id, source_central |-> source_central,
   plate_id |-> plate_id, plate_view |-> plate_view,
   entry_time |-> entry_time, exit_time |-> NoInt,
   duration |-> NoText, fee |-> 0, status |-> "IN",
   sync_status |-> sync_status, last_location |-> last_location,
   is_anomaly |-> is_anomaly, created_at |-> created_at]

\* INSERT INTO history: the row gets the next AUTOINCREMENT id
InsertRow(db, row) ==
  [db EXCEPT !.history = Append(@, [row EXCEPT !.id = db.next_id]),
             !.next_id = @ + 1]

\* CentralDatabase.add_vehicle_entry
add_vehicle_entry(db, plate_id, plate_view, entry_time, event_id, source_central, sync_status, t) ==
  InsertRow(db, NewRow(0, event_id, source_central, plate_id, plate_view,
                       entry_time, sync_status, NoText, 0, t))

\* add_vehicle_entry_p2p: as add_vehicle_entry with sync_status 'SYNCED'
add_vehicle_entry_p2p(db, event_id, source_central, plate_id, plate_view, entry_time, t) ==
  InsertRow(db, NewRow(0, event_id, source_central, plate_id, plate_view,
                       entry_time, "SYNCED", NoText, 0, t))

\* an insert that does not mark the row as an anomaly
create_entry_from_parking_lot_plain(db, event_id, source_central, plate_id, plate_view, entry_time, location, t) ==
  InsertRow(db, NewRow(0, event_id, source_central, plate_id, plate_view,
                       entry_time, "P2P", location, 0, t))

\* CentralDatabase.create_entry_from_parking_lot
create_entry_from_parking_lot(db, event_id, source_central, plate_id, plate_view, entry_time, location, t) ==
  InsertRow(db, NewRow(0, event_id, source_central, plate_id, plate_view,
                       entry_time, "P2P", location, 1, t))

\* the rows of a set that come first under ORDER BY entry_time DESC, and
\* under ORDER BY created_at DESC
LatestEntry(rows) == {r \in rows : \A q \in rows : q.entry_time <= r.entry_time}

LatestCreated(rows) == {r \in rows : \A q \in rows : q.created_at <= r.created_at}

\* a lookup that never finds the vehicle
find_vehicle_in_parking_blind(db, plate_id) == {}

\* CentralDatabase.find_vehicle_in_parking, the definition that is in force
\* (the second one of the class): the candidate result dicts; the dict has
\* no event_id key
find_vehicle_in_parking(db, plate_id) ==
  { [id |-> r.id, plate_id |-> r.plate_id, plate_view |-> r.plate_view,
     entry_time |-> r.entry_time, status |-> r.status,
     last_location |-> r.last_location, is_anomaly |-> r.is_anomaly] :
    r \in LatestEntry({q \in SeqToSet(db.history) :
                         q.plate_id = plate_id /\ q.status = "IN"}) }

\* the ids update_vehicle_exit may pick: plate IN with exit_time NULL,
\* ORDER BY entry_time DESC, created_at DESC LIMIT 1
ExitTargets(db, plate_id) ==
  { r.id : r \in LatestCreated(LatestEntry({q \in SeqToSet(db.history) :
                                q.plate_id = plate_id /\ q.status = "IN"
                                /\ q.exit_time = NoInt})) }

\* an exit that would also clear the event_id of the row
SetExit_restamp(r, exit_time, duration, fee) ==
  [r EXCEPT !.exit_time = exit_time, !.duration = duration, !.fee = fee,
            !.status = "OUT", !.event_id = NoEventId]

\* the SET clause of update_vehicle_exit and update_vehicle_exit_p2p
SetExit(r, exit_time, duration, fee) ==
  [r EXCEPT !.exit_time = exit_time, !.duration = duration, !.fee = fee,
            !.status = "OUT"]

\* CentralDatabase.update_vehicle_exit on the row it selected (target is
\* an element of ExitTargets, or 0 when there is none)
update_vehicle_exit(db, target, exit_time, duration, fee) ==
  [db EXCEPT !.history = [i \in 1..Len(@) |->
     IF @[i].id = target THEN SetExit(@[i], exit_time, duration, fee)
     ELSE @[i]]]

\* update_vehicle_exit_p2p: WHERE event_id = ? AND status = 'IN'
update_vehicle_exit_p2p(db, event_id, exit_time, duration, fee) ==
  [db EXCEPT !.history = [i \in 1..Len(@) |->
     IF @[i].event_id = event_id /\ @[i].event_id # NoEventId
        /\ @[i].status = "IN"
     THEN SetExit(@[i], exit_time, duration, fee) ELSE @[i]]]

\* event_exists: SELECT 1 FROM history WHERE event_id = ?
event_exists(db, event_id) ==
  event_id # NoEventId /\ \E r \in SeqToSet(db.history) : r.event_id = event_id

\* delete_entry_by_event_id: DELETE FROM history WHERE event_id = ?
delete_entry_by_event_id(db, event_id) ==
  [db EXCEPT !.history = SelectSeq(@, LAMBDA r :
     ~(r.event_id = event_id /\ event_id # NoEventId))]

\* find_history_by_event_id: the first row with the event_id (LIMIT 1), as
\* a set of at most one row
find_history_by_event_id(db, event_id) ==
  IF event_id = NoEventId THEN {}
  ELSE { r \in SeqToSet(db.history) :
           /\ r.event_id = event_id
           /\ \A q \in SeqToSet(db.history) : q.event_id = event_id => r.id <= q.id }

\* get_history_entry_by_id
get_history_entry_by_id(db, history_id) ==
  { r \in SeqToSet(db.history) : r.id = history_id }

\* an update of the location that does not look at the status
update_vehicle_location_any(db, plate_id, location) ==
  [db EXCEPT !.history = [i \in 1..Len(@) |->
     IF @[i].plate_id = plate_id
     THEN [@[i] EXCEPT !.last_location = location] ELSE @[i]]]

\* update_vehicle_location: WHERE plate_id = ? AND status = 'IN'
update_vehicle_location(db, plate_id, location) ==
  [db EXCEPT !.history = [i \in 1..Len(@) |->
     IF @[i].plate_id = plate_id /\ @[i].status = "IN"
     THEN [@[i] EXCEPT !.last_location = location] ELSE @[i]]]

\* the columns of a history row, in the order of dict(row)
Columns == <<"id", "event_id", "source_central", "plate_id", "plate_view", "entry_time", "exit_time", "duration", "fee", "status", "sync_status", "last_location", "is_anomaly", "created_at">>

\* the snapshot json.dumps(dict(row)) stored in history_changes: the
\* columns and their values, one after the other
Snapshot(r) == [i \in 1..Len(Columns) |-> <<Columns[i], r[Columns[i]]>>]

\* json.loads of a snapshot: the dict of the columns it lists
LoadSnapshot(text) ==
  [k \in {text[i][1] : i \in 1..Len(text)} |->
     (CHOOSE pair \in {text[i] : i \in 1..Len(text)} : pair[1] = k)[2]]

\* an update that writes the row and keeps no trace of the change
update_history_entry_unlogged(db, history_id, new_plate_id, new_plate_view) ==
  [db EXCEPT !.history = [i \in 1..Len(@) |->
     IF @[i].id = history_id
     THEN [@[i] EXCEPT !.plate_id = new_plate_id, !.plate_view = new_plate_view]
     ELSE @[i]]]

\* what update_history_entry returns: False when the SELECT by id finds no
\* row, True after the commit
update_history_entry_returns(db, history_id) ==
  get_history_entry_by_id(db, history_id) # {}

\* CentralDatabase.update_history_entry: the new database; unchanged when
\* the id does not exist (the call then returns False)
update_history_entry(db, history_id, new_plate_id, new_plate_view) ==
  IF get_history_entry_by_id(db, history_id) = {} THEN db
  ELSE LET old == CHOOSE r \in get_history_entry_by_id(db, history_id) : TRUE
           new == [old EXCEPT !.plate_id = new_plate_id,
                              !.plate_view = new_plate_view]
       IN [db EXCEPT
             !.history = [i \in 1..Len(@) |->
                            IF @[i].id = history_id THEN new ELSE @[i]],
             !.changes = Append(@, [history_id |-> history_id,
                                    change_type |-> "UPDATE",
                                    old_plate_id |-> old.plate_id,
                                    new_plate_id |-> new_plate_id,
                                    old_data |-> <<Snapshot(old)>>,
                                    new_data |-> <<Snapshot(new)>>])]

\* CentralDatabase.delete_history_entry
delete_history_entry(db, history_id) ==
  IF get_history_entry_by_id(db, history_id) = {} THEN db
  ELSE LET old == CHOOSE r \in get_history_entry_by_id(db, history_id) : TRUE
       IN [db EXCEPT
             !.history = SelectSeq(@, LAMBDA r : r.id # history_id),
             !.changes = Append(@, [history_id |-> history_id,
                                    change_type |-> "DELETE",
                                    old_plate_id |-> old.plate_id,
                                    new_plate_id |-> NoText,
                                    old_data |-> <<Snapshot(old)>>,
                                    new_data |-> <<>>])]

\* whether update_history_entry / delete_history_entry return True
RowExists(db, history_id) == get_history_entry_by_id(db, history_id) # {}

\* CentralDatabase.save_parking_lot_config: INSERT ... ON CONFLICT(location_name)
\* DO UPDATE on the parking_lots table
save_parking_lot_config(db, location_name, capacity, camera_id) ==
  [db EXCEPT !.lots = {l \in @ : l.location_name # location_name}
                      \cup {[location_name |-> location_name,
                              capacity |-> capacity, camera_id |-> camera_id]}]

(***************************************************************************)
(* ParkingStateManager                                                     *)
(***************************************************************************)
FEE_BASE_SECONDS == 1800
FEE_PER_HOUR == 25000
SecondsPerHour == 3600

\* int(x / y) of Python for integers x and y > 0: truncation towards zero
TruncDiv(x, y) == IF x >= 0 THEN x \div y ELSE 0 - ((0 - x) \div y)

\* math.ceil(x / y) for integers x and y > 0
CeilDiv(x, y) == 0 - ((0 - x) \div y)

\* a fee that counts the started hours only when they are complete
_calculate_fee_floor(entry_time, exit_time) ==
  LET duration_seconds == exit_time - entry_time
      hours == TruncDiv(duration_seconds, SecondsPerHour)
      minutes == TruncDiv(duration_seconds - hours * SecondsPerHour, 60)
      fee == IF duration_seconds <= FEE_BASE_SECONDS THEN 0
             ELSE TruncDiv(duration_seconds - FEE_BASE_SECONDS, SecondsPerHour)
                  * FEE_PER_HOUR
  IN <<(<<hours, minutes>>), fee>>

\* ParkingStateManager._calculate_fee on times in seconds:
\* <<duration, fee>>, duration being <<hours, minutes>>
_calculate_fee(entry_time, exit_time) ==
  LET duration_seconds == exit_time - entry_time
      hours == TruncDiv(duration_seconds, SecondsPerHour)
      minutes == TruncDiv(duration_seconds - hours * SecondsPerHour, 60)
      fee == IF duration_seconds <= FEE_BASE_SECONDS THEN 0
             ELSE CeilDiv(duration_seconds - FEE_BASE_SECONDS, SecondsPerHour)
                  * FEE_PER_HOUR
  IN <<(<<hours, minutes>>), fee>>

\* the dict a handler returns
Result(success, action, already_inside, event_id, history_id, plate_id, plate_view, entry_time, exit_time, fee) ==
  [success |-> success, deduped |-> FALSE, action |-> action,
   already_inside |-> already_inside, event_id |-> event_id,
   history_id |-> history_id, plate_id |-> plate_id,
   plate_view |-> plate_view, entry_time |-> entry_time,
   exit_time |-> exit_time, fee |-> fee]

Failure == Result(FALSE, "NONE", FALSE, NoEventId, 0, NoText, NoText, NoInt, NoInt, 0)

\* ParkingStateManager._process_entry at time t: the possible
\* [db, result] outcomes
_process_entry(db, plate_id, plate_view, event_id, t) ==
  LET existing == find_vehicle_in_parking(db, plate_id)
  IN IF existing # {}
     THEN { [db |-> db,
             result |-> [Failure EXCEPT
                           !.already_inside = TRUE,
                           !.entry_time = e.entry_time,
                           !.event_id = DictGet(e, "event_id", NoEventId)]] :
            e \in existing }
     ELSE { [db |-> add_vehicle_entry(db, plate_id, plate_view, t, event_id,
                                      NoCentral, "LOCAL", t),
             result |-> Result(TRUE, "ENTRY", FALSE, event_id, db.next_id,
                               plate_id, plate_view, t, NoInt, 0)] }

\* the event_id _process_exit falls back to: f"central-{camera_id}_{ms}_{plate_id}"
ExitFallbackEventId(camera_id, t, plate_id) ==
  MkEventId("central-" \o camera_id, t * 1000, plate_id)

\* ParkingStateManager._process_exit at time t
_process_exit(db, plate_id, plate_view, camera_id, event_id, t) ==
  LET found == find_vehicle_in_parking(db, plate_id)
      targets == IF ExitTargets(db, plate_id) = {} THEN {0}
                 ELSE ExitTargets(db, plate_id)
  IN IF found = {} THEN { [db |-> db, result |-> Failure] }
     ELSE { [db |-> update_vehicle_exit(db, target, t,
                      _calculate_fee(entry.entry_time, t)[1],
                      _calculate_fee(entry.entry_time, t)[2]),
             result |-> Result(TRUE, "EXIT", FALSE,
                          IF event_id # NoEventId THEN event_id
                          ELSE IF DictGet(entry, "event_id", NoEventId) # NoEventId
                               THEN DictGet(entry, "event_id", NoEventId)
                               ELSE ExitFallbackEventId(camera_id, t, plate_id),
                          entry.id, plate_id, plate_view, entry.entry_time, t,
                          _calculate_fee(entry.entry_time, t)[2])] :
            entry \in found, target \in targets }

\* ParkingStateManager.process_edge_event at time t (the events log table is
\* not part of the model)
process_edge_event(db, event_type, camera_id, plate_text, event_id, t) ==
  LET norm == _normalize_plate(Upper(plate_text))
  IN IF norm[1] = NoText THEN { [db |-> db, result |-> Failure] }
     ELSE IF event_type \in {"ENTRY", "DETECTION"}
          THEN _process_entry(db, norm[1], norm[2], event_id, t)
          ELSE IF event_type = "EXIT"
               THEN _process_exit(db, norm[1], norm[2], camera_id, event_id, t)
               ELSE { [db |-> db, result |-> Failure] }

(***************************************************************************)
(* Envelopes, peer messages and what a handler hands to the fan-out        *)
(***************************************************************************)
\* an event envelope as an edge sends it (history_id 0: none given)
Env(type, camera_id, camera_type, plate_text, event_id, history_id, location) ==
  [type |-> type, camera_id |-> camera_id, camera_type |-> camera_type,
   plate_text |-> plate_text,
   event_id |-> event_id, history_id |-> history_id, location |-> location]

\* P2PMessage with its data flattened
Msg(type, source_central, event_id, plate_id, plate_view, time, fee, duration, location, is_anomaly, history_id) ==
  [type |-> type, source_central |-> source_central, event_id |-> event_id,
   plate_id |-> plate_id, plate_view |-> plate_view, time |-> time,
   fee |-> fee, duration |-> duration, location |-> location,
   is_anomaly |-> is_anomaly, history_id |-> history_id]

\* protocol.create_entry_pending_message
create_entry_pending_message(source_central, event_id, plate_id, plate_view, entry_time) ==
  Msg("VEHICLE_ENTRY_PENDING", source_central, event_id, plate_id, plate_view,
      entry_time, 0, NoText, NoText, FALSE, 0)

\* protocol.create_exit_message
create_exit_message(source_central, event_id, plate_id, exit_time, fee, duration) ==
  Msg("VEHICLE_EXIT", source_central, event_id, plate_id, NoText, exit_time,
      fee, duration, NoText, FALSE, 0)

\* protocol.create_history_update_message: carries the sender's local row id
create_history_update_message(source_central, history_id, plate_text, plate_view) ==
  Msg("HISTORY_UPDATE", source_central, NoEventId, plate_text, plate_view,
      NoInt, 0, NoText, NoText, FALSE, history_id)

\* protocol.create_history_delete_message
create_history_delete_message(source_central, history_id) ==
  Msg("HISTORY_DELETE", source_central, NoEventId, NoText, NoText, NoInt, 0,
      NoText, NoText, FALSE, history_id)

\* protocol.create_location_update_message
create_location_update_message(source_central, event_id, plate_id, location, location_time, is_anomaly) ==
  Msg("LOCATION_UPDATE", source_central, event_id, plate_id, NoText,
      location_time, 0, NoText, location, is_anomaly, 0)

\* protocol.create_parking_lot_config_message
create_parking_lot_config_message(source_central, location_name, capacity, camera_id) ==
  Msg("PARKING_LOT_CONFIG", source_central, NoEventId, NoText, NoText, 0, 0,
      <<0, 0>>, location_name, FALSE, 0)
  @@ [capacity |-> capacity, camera_id |-> camera_id]

\* an event handed to broadcast_to_edges
EdgeEvent(type, event_id, history_id) ==
  [type |-> type, event_id |-> event_id, history_id |-> history_id]

\* what one run of a handler did: the new database, the result it returned
\* or logged, the messages given to P2PManager.broadcast, the events given
\* to broadcast_to_edges and the events given to broadcast_history_update
Out(db, result, p2p, cast, front) ==
  [db |-> db, result |-> result, p2p |-> p2p, cast |-> cast, front |-> front]

Skipped(db) == Out(db, Failure, <<>>, <<>>, <<>>)

\* the P2P broadcast both ingress handlers make after a successful
\* process_edge_event
EntryExitBroadcast(central_id, r) ==
  IF r.action = "ENTRY" /\ r.history_id # 0
  THEN <<create_entry_pending_message(central_id, r.event_id, r.plate_id,
                                      r.plate_view, r.entry_time)>>
  ELSE IF r.action = "EXIT" /\ r.history_id # 0
       THEN <<create_exit_message(central_id, r.event_id, r.plate_id,
                                  r.exit_time, r.fee,
                                  _calculate_fee(r.entry_time, r.exit_time)[1])>>
       ELSE <<>>

\* sync_event_to_edges_and_frontend: the frontend always, the edges only
\* when the event data carries an event_id
sync_event_to_edges(event_type, r) ==
  IF r.event_id # NoEventId THEN <<EdgeEvent(event_type, r.event_id, r.history_id)>>
  ELSE <<>>

\* POST /api/edge/event (receive_edge_event) on central central_id at time t
receive_edge_event(db, central_id, env, t) ==
  LET event_id == IF env.event_id = NoEventId /\ env.type \in {"ENTRY", "DETECTION"}
                  THEN generate_event_id(central_id, t, StripSpaces(env.plate_text))
                  ELSE env.event_id
  IN IF event_exists(db, event_id)
     THEN { Out(db, [Failure EXCEPT !.success = TRUE, !.deduped = TRUE,
                                    !.event_id = event_id], <<>>, <<>>, <<>>) }
     ELSE { IF o.result.success
            THEN Out(o.db, o.result, EntryExitBroadcast(central_id, o.result),
                     sync_event_to_edges(env.type, o.result), <<env.type>>)
            ELSE Out(o.db, o.result, <<>>, <<>>, <<>>) :
            o \in process_edge_event(db, env.type, env.camera_id, env.plate_text,
                                     event_id, t) }

\* handle_edge_websocket_event, type UPDATE: the row is updated once when it
\* is resolved by event_id and twice when history_id names it
EdgeUpdate(db, central_id, env) ==
  LET h1 == env.history_id
      db1 == IF h1 # 0 THEN update_history_entry(db, h1, env.plate_text, env.plate_text)
             ELSE db
      h2 == IF h1 # 0 /\ ~RowExists(db, h1) THEN 0 ELSE h1
      by_event == find_history_by_event_id(db1, env.event_id)
      h3 == IF h2 = 0 /\ by_event # {} THEN (CHOOSE r \in by_event : TRUE).id ELSE h2
  IN IF h3 # 0 /\ RowExists(db1, h3)
     THEN Out(update_history_entry(db1, h3, env.plate_text, env.plate_text),
              [Failure EXCEPT !.success = TRUE, !.action = "UPDATE",
                              !.history_id = h3, !.event_id = env.event_id],
              <<create_history_update_message(central_id, h3, env.plate_text,
                                              env.plate_text)>>,
              <<EdgeEvent("UPDATE", env.event_id, h3)>>, <<"updated">>)
     ELSE Skipped(db1)

\* handle_edge_websocket_event, type DELETE: the fan-out follows the second
\* delete_history_entry call only
EdgeDelete(db, central_id, env) ==
  LET h1 == env.history_id
      db1 == IF h1 # 0 THEN delete_history_entry(db, h1) ELSE db
      h2 == IF h1 # 0 /\ ~RowExists(db, h1) THEN 0 ELSE h1
      by_event == find_history_by_event_id(db1, env.event_id)
      h3 == IF h2 = 0 /\ by_event # {} THEN (CHOOSE r \in by_event : TRUE).id ELSE h2
  IN IF h3 # 0 /\ RowExists(db1, h3)
     THEN Out(delete_history_entry(db1, h3),
              [Failure EXCEPT !.success = TRUE, !.action = "DELETE",
                              !.history_id = h3, !.event_id = env.event_id],
              <<create_history_delete_message(central_id, h3)>>,
              <<EdgeEvent("DELETE", env.event_id, h3)>>, <<"deleted">>)
     ELSE Skipped(db1)

\* handle_edge_websocket_event, type LOCATION_UPDATE and type ENTRY with
\* camera_type PARKING_LOT: data.plate_id is used as it comes
EdgeParkingLot(db, central_id, env, t) ==
  IF find_vehicle_in_parking(db, env.plate_text) # {}
  THEN Out(update_vehicle_location(db, env.plate_text, env.location),
           [Failure EXCEPT !.success = TRUE, !.action = "LOCATION_UPDATE",
                           !.event_id = env.event_id],
           <<create_location_update_message(central_id, env.event_id,
                env.plate_text, env.location, t, FALSE)>>,
           <<EdgeEvent("LOCATION_UPDATE", env.event_id, 0)>>,
           <<"LOCATION_UPDATE">>)
  ELSE Out(create_entry_from_parking_lot(db, env.event_id, NoCentral,
                env.plate_text, env.plate_text, t, env.location, t),
           [Failure EXCEPT !.success = TRUE, !.action = "ANOMALY",
                           !.event_id = env.event_id, !.history_id = db.next_id],
           <<create_location_update_message(central_id, env.event_id,
                env.plate_text, env.location, t, TRUE)>>,
           <<EdgeEvent("ENTRY", env.event_id, 0)>>, <<"ENTRY">>)

\* handle_edge_websocket_event, the ENTRY / EXIT / DETECTION path: no
\* event_id is generated for an ENTRY, and the edges are not notified
EdgeEntryExit(db, central_id, env, t) ==
  IF event_exists(db, env.event_id) THEN { Skipped(db) }
  ELSE { IF o.result.success
         THEN Out(o.db, o.result, EntryExitBroadcast(central_id, o.result),
                  <<>>, <<env.type>>)
         ELSE Out(o.db, o.result, <<>>, <<>>, <<>>) :
         o \in process_edge_event(db, env.type, env.camera_id, env.plate_text,
                                  env.event_id, t) }

\* handle_edge_websocket_event for an envelope received from an edge
handle_edge_websocket_event(db, central_id, env, t) ==
  IF env.type = "UPDATE" THEN { EdgeUpdate(db, central_id, env) }
  ELSE IF env.type = "DELETE" THEN { EdgeDelete(db, central_id, env) }
  ELSE IF env.type = "LOCATION_UPDATE" THEN { EdgeParkingLot(db, central_id, env, t) }
  ELSE IF env.type = "ENTRY" /\ env.camera_type = "PARKING_LOT"
       THEN { EdgeParkingLot(db, central_id, env, t) }
  ELSE EdgeEntryExit(db, central_id, env, t)

\* POST /api/edge/sync-config (sync_edge_config), for one camera of type
\* PARKING_LOT: the config is saved and broadcast to the peers
sync_edge_config(db, central_id, location_name, capacity, camera_id) ==
  Out(save_parking_lot_config(db, location_name, capacity, camera_id),
      [Failure EXCEPT !.success = TRUE, !.action = "PARKING_LOT_CONFIG"],
      <<create_parking_lot_config_message(central_id, location_name, capacity,
                                          camera_id)>>,
      <<>>, <<"PARKING_LOT_CONFIG_UPDATE">>)

\* PUT /api/parking/history/{id}
put_history_entry(db, central_id, history_id, new_plate_id, new_plate_view) ==
  LET record == get_history_entry_by_id(db, history_id)
      event_id == IF record = {} THEN NoEventId
                  ELSE (CHOOSE r \in record : TRUE).event_id
  IN IF RowExists(db, history_id)
     THEN Out(update_history_entry(db, history_id, new_plate_id, new_plate_view),
              [Failure EXCEPT !.success = TRUE, !.action = "UPDATE",
                              !.history_id = history_id, !.event_id = event_id],
              <<create_history_update_message(central_id, history_id,
                                              new_plate_id, new_plate_view)>>,
              <<EdgeEvent("UPDATE", event_id, history_id)>>, <<"updated">>)
     ELSE Skipped(db)

\* DELETE /api/parking/history/{id}
delete_history_route(db, central_id, history_id) ==
  LET record == get_history_entry_by_id(db, history_id)
      event_id == IF record = {} THEN NoEventId
                  ELSE (CHOOSE r \in record : TRUE).event_id
  IN IF RowExists(db, history_id)
     THEN Out(delete_history_entry(db, history_id),
              [Failure EXCEPT !.success = TRUE, !.action = "DELETE",
                              !.history_id = history_id, !.event_id = event_id],
              <<create_history_delete_message(central_id, history_id)>>,
              <<EdgeEvent("DELETE", event_id, history_id)>>, <<"deleted">>)
     ELSE Skipped(db)

(***************************************************************************)
(* P2PEventHandler: the handlers of messages received from a peer          *)
(***************************************************************************)
\* P2PEventHandler._resolve_conflict: existing is the dict that
\* find_vehicle_in_parking returned
_resolve_conflict(db, existing, m, t) ==
  LET existing_event_id == DictGet(existing, "event_id", NoEventId)
      existing_timestamp == _parse_timestamp_from_event_id(existing_event_id)
      new_timestamp == _parse_timestamp_from_event_id(m.event_id)
  IN IF existing_event_id = NoEventId THEN Skipped(db)
     ELSE IF existing_timestamp = NoInt \/ new_timestamp = NoInt THEN Skipped(db)
     ELSE IF new_timestamp < existing_timestamp
          THEN Out(add_vehicle_entry_p2p(
                     delete_entry_by_event_id(db, existing_event_id),
                     m.event_id, m.source_central, m.plate_id, m.plate_view,
                     m.time, t),
                   [Failure EXCEPT !.success = TRUE, !.action = "REPLACED",
                                   !.event_id = m.event_id],
                   <<>>, <<>>, <<"p2p_entry_replaced">>)
          ELSE Skipped(db)

\* P2PEventHandler.handle_vehicle_entry_pending
handle_vehicle_entry_pending(db, m, t) ==
  IF event_exists(db, m.event_id) THEN { Skipped(db) }
  ELSE IF find_vehicle_in_parking(db, m.plate_id) # {}
       THEN { _resolve_conflict(db, existing, m, t) :
              existing \in find_vehicle_in_parking(db, m.plate_id) }
       ELSE { Out(add_vehicle_entry_p2p(db, m.event_id, m.source_central,
                                        m.plate_id, m.plate_view, m.time, t),
                  [Failure EXCEPT !.success = TRUE, !.action = "ENTRY",
                                  !.event_id = m.event_id,
                                  !.history_id = db.next_id],
                  <<>>, <<EdgeEvent("ENTRY", m.event_id, 0)>>,
                  <<"p2p_entry_synced">>) }

\* P2PEventHandler.handle_vehicle_exit
handle_vehicle_exit(db, m) ==
  LET by_event == find_history_by_event_id(db, m.event_id)
      fallback == by_event = {} /\ m.plate_id # NoText
                  /\ find_vehicle_in_parking(db, m.plate_id) # {}
      targets == IF ExitTargets(db, m.plate_id) = {} THEN {0}
                 ELSE ExitTargets(db, m.plate_id)
      new_dbs == IF fallback
                 THEN { update_vehicle_exit(db, target, m.time, m.duration, m.fee) :
                        target \in targets }
                 ELSE { update_vehicle_exit_p2p(db, m.event_id, m.time,
                                                m.duration, m.fee) }
  IN { IF d # db
       THEN Out(d, [Failure EXCEPT !.success = TRUE, !.action = "EXIT",
                                   !.event_id = m.event_id],
                <<>>, <<EdgeEvent("EXIT", m.event_id, 0)>>, <<"p2p_exit_synced">>)
       ELSE Skipped(db) : d \in new_dbs }

\* a handler that would hand the message it received back to the peers
handle_history_update_relay(db, m) ==
  IF RowExists(db, m.history_id)
  THEN Out(update_history_entry(db, m.history_id, m.plate_id, m.plate_view),
           [Failure EXCEPT !.success = TRUE, !.action = "UPDATE",
                           !.history_id = m.history_id],
           <<m>>, <<EdgeEvent("UPDATE", NoEventId, m.history_id)>>, <<"updated">>)
  ELSE Out(db, Failure, <<m>>, <<>>, <<>>)

\* P2PEventHandler.handle_history_update: data.history_id is looked up in
\* the local table
handle_history_update(db, m) ==
  IF RowExists(db, m.history_id)
  THEN Out(update_history_entry(db, m.history_id, m.plate_id, m.plate_view),
           [Failure EXCEPT !.success = TRUE, !.action = "UPDATE",
                           !.history_id = m.history_id],
           <<>>, <<EdgeEvent("UPDATE", NoEventId, m.history_id)>>, <<"updated">>)
  ELSE Skipped(db)

\* P2PEventHandler.handle_history_delete
handle_history_delete(db, m) ==
  IF RowExists(db, m.history_id)
  THEN Out(delete_history_entry(db, m.history_id),
           [Failure EXCEPT !.success = TRUE, !.action = "DELETE",
                           !.history_id = m.history_id],
           <<>>, <<EdgeEvent("DELETE", NoEventId, m.history_id)>>, <<"deleted">>)
  ELSE Skipped(db)

\* P2PEventHandler.handle_location_update: is_anomaly is read and not used
handle_location_update(db, m, t) ==
  IF find_vehicle_in_parking(db, m.plate_id) # {}
  THEN Out(update_vehicle_location(db, m.plate_id, m.location),
           [Failure EXCEPT !.success = TRUE, !.action = "LOCATION_UPDATE",
                           !.event_id = m.event_id],
           <<>>, <<EdgeEvent("LOCATION_UPDATE", m.event_id, 0)>>,
           <<"location_updated">>)
  ELSE Out(create_entry_from_parking_lot(db, m.event_id, m.source_central,
                m.plate_id, m.plate_id, m.time, m.location, t),
           [Failure EXCEPT !.success = TRUE, !.action = "ANOMALY",
                           !.event_id = m.event_id, !.history_id = db.next_id],
           <<>>, <<EdgeEvent("ENTRY", m.event_id, 0)>>, <<"entry_created">>)

\* P2PEventHandler.handle_parking_lot_config: the config is saved and the
\* frontend is told; nothing goes to the edges or to the peers
handle_parking_lot_config(db, m) ==
  Out(save_parking_lot_config(db, m.location, m.capacity, m.camera_id),
      [Failure EXCEPT !.success = TRUE, !.action = "PARKING_LOT_CONFIG"],
      <<>>, <<>>, <<"PARKING_LOT_CONFIG_UPDATE">>)

\* P2PManager._handle_message: dispatch on the message type
_handle_message(db, m, t) ==
  IF m.type = "VEHICLE_ENTRY_PENDING" THEN handle_vehicle_entry_pending(db, m, t)
  ELSE IF m.type = "VEHICLE_EXIT" THEN handle_vehicle_exit(db, m)
  ELSE IF m.type = "HISTORY_UPDATE" THEN { handle_history_update(db, m) }
  ELSE IF m.type = "HISTORY_DELETE" THEN { handle_history_delete(db, m) }
  ELSE IF m.type = "LOCATION_UPDATE" THEN { handle_location_update(db, m, t) }
  ELSE IF m.type = "PARKING_LOT_CONFIG" THEN { handle_parking_lot_config(db, m) }
  ELSE { Skipped(db) }

(***************************************************************************)
(* unified_app: the PlateTracker of a camera worker (core/plate_tracker.py)*)
(* Time is counted in ticks of half a second.                              *)
(***************************************************************************)
\* window_seconds = 1.5, in ticks
WindowTicks == 3

\* None as add_detection returns it
NoPlate == <<>>

\* ''.join(c.upper() for c in text if c.isalnum())
AlnumUpper(text) == SelectSeq(Upper(text), IsAlnumUpper)

\* '-' in text, '.' in text
HasDash(text) == \E i \in 1..Len(text) : text[i] = "-"
HasDot(text) == \E i \in 1..Len(text) : text[i] = "."

\* the number of occurrences of x in the list
CountOf(list, x) == Cardinality({i \in 1..Len(list) : list[i] = x})

\* Counter(list).most_common(1)[0][0]: the highest count, and among equal
\* counts the element that was inserted first
MostCommon(list) ==
  LET first(x) == CHOOSE i \in 1..Len(list) :
                    list[i] = x /\ \A j \in 1..(i - 1) : list[j] # x
      best == CHOOSE i \in 1..Len(list) :
                /\ i = first(list[i])
                /\ \A j \in 1..Len(list) :
                     \/ CountOf(list, list[j]) < CountOf(list, list[i])
                     \/ /\ CountOf(list, list[j]) = CountOf(list, list[i])
                        /\ first(list[j]) >= i
  IN list[best]

\* the first element of a list, or None when the list is empty
FirstOr(list, default) == IF list = <<>> THEN default ELSE list[1]

\* PlateVotes._find_formatted_version: the first vote with the alphanumerics
\* of base_plate that has both '-' and '.', else the first with '-', else
\* the first with '.', else None
_find_formatted_version(base_plate, votes) ==
  LET same == SelectSeq(votes, LAMBDA v : AlnumUpper(v) = AlnumUpper(base_plate))
      with_both == SelectSeq(same, LAMBDA v : HasDash(v) /\ HasDot(v))
      with_dash == SelectSeq(same, LAMBDA v : HasDash(v) /\ ~HasDot(v))
      with_dot == SelectSeq(same, LAMBDA v : ~HasDash(v) /\ HasDot(v))
  IN IF with_both # <<>> THEN with_both[1]
     ELSE IF with_dash # <<>> THEN with_dash[1]
     ELSE FirstOr(with_dot, NoPlate)

\* _select_best_format that never looks for a formatted version
_select_best_format_plain(votes) == MostCommon(votes)

\* PlateVotes._select_best_format: the most voted text when it has a '-' or
\* a '.', else a formatted version of it, else the most voted text
_select_best_format(votes) ==
  LET most_common_plate == MostCommon(votes)
  IN IF HasDash(most_common_plate) \/ HasDot(most_common_plate)
     THEN most_common_plate
     ELSE IF _find_formatted_version(most_common_plate, votes) # NoPlate
          THEN _find_formatted_version(most_common_plate, votes)
          ELSE most_common_plate

\* the texts of the votes, in order
VoteTextsOf(votes) == [i \in 1..Len(votes) |-> votes[i].text]

\* PlateVotes._check_early_stop: min_votes votes with the same alphanumerics
_check_early_stop(votes, min_votes) ==
  IF Len(votes) < min_votes THEN NoPlate
  ELSE LET texts == VoteTextsOf(votes)
           normalized_votes == [i \in 1..Len(texts) |-> AlnumUpper(texts[i])]
           most_common_normalized == MostCommon(normalized_votes)
       IN IF CountOf(normalized_votes, most_common_normalized) >= min_votes
          THEN _select_best_format(
                 SelectSeq(texts, LAMBDA v : AlnumUpper(v) = most_common_normalized))
          ELSE NoPlate

\* difflib: the longest block a[i..i+k-1] = b[j..j+k-1], the one that starts
\* first in a and then first in b among the longest; k = 0 when none
LongestMatch(a, b) ==
  LET blocks == {<<i, j, k>> \in (1..Len(a)) \X (1..Len(b)) \X (1..Len(a)) :
                   /\ i + k - 1 <= Len(a) /\ j + k - 1 <= Len(b)
                   /\ SubSeq(a, i, i + k - 1) = SubSeq(b, j, j + k - 1)}
  IN IF blocks = {} THEN <<1, 1, 0>>
     ELSE CHOOSE m \in blocks :
            \A n \in blocks :
              \/ n[3] < m[3]
              \/ n[3] = m[3] /\ n[1] > m[1]
              \/ n[3] = m[3] /\ n[1] = m[1] /\ n[2] >= m[2]

\* difflib: the number of characters in the matching blocks of a and b
RECURSIVE MatchingChars(_, _)
RECURSIVE AroundMatch(_, _, _)
MatchingChars(a, b) ==
  IF a = <<>> \/ b = <<>> THEN 0 ELSE AroundMatch(a, b, LongestMatch(a, b))

\* difflib: the block m, and the matching blocks to its left and to its right
AroundMatch(a, b, m) ==
  IF m[3] = 0 THEN 0
  ELSE m[3]
       + MatchingChars(SubSeq(a, 1, m[1] - 1), SubSeq(b, 1, m[2] - 1))
       + MatchingChars(SubSeq(a, m[1] + m[3], Len(a)), SubSeq(b, m[2] + m[3], Len(b)))

\* the comparison of _is_similar on the alphanumerics t1 and t2
SimilarAlnum(t1, t2) ==
  \/ t1 = t2
  \/ 2 * MatchingChars(t1, t2) * 100 >= 85 * (Len(t1) + Len(t2))

\* PlateVotes._is_similar with similarity_threshold = 0.85: equal
\* alphanumerics, or SequenceMatcher(None, t1, t2).ratio() >= 0.85
_is_similar(text1, text2) == SimilarAlnum(AlnumUpper(text1), AlnumUpper(text2))

\* PlateVotes._group_similar_plates: each vote joins the first group whose
\* representative it is similar to, or opens a group
JoinGroup(groups, plate_text, fits) ==
  IF fits = {}
  THEN Append(groups, [representative |-> plate_text, votes |-> <<plate_text>>])
  ELSE [groups EXCEPT ![CHOOSE x \in fits : \A y \in fits : x <= y].votes = Append(@, plate_text)]

RECURSIVE GroupVotes(_, _)
GroupVotes(texts, groups) ==
  IF texts = <<>> THEN groups
  ELSE GroupVotes(Tail(texts),
                  JoinGroup(groups, texts[1],
                            {g \in 1..Len(groups) : _is_similar(texts[1], groups[g].representative)}))

_group_similar_plates(votes) == GroupVotes(VoteTextsOf(votes), <<>>)

\* max(groups, key=lambda g: len(g['votes'])): the first largest group
BestGroup(groups) ==
  groups[CHOOSE g \in 1..Len(groups) :
           /\ \A h \in 1..Len(groups) : Len(groups[h].votes) <= Len(groups[g].votes)
           /\ \A h \in 1..(g - 1) : Len(groups[h].votes) < Len(groups[g].votes)]

\* the best format of the votes of best_group when they are min_votes
BestGroupResult(best_group, min_votes) ==
  IF Len(best_group.votes) >= min_votes
  THEN _select_best_format(best_group.votes)
  ELSE NoPlate

\* PlateVotes._get_consensus: the best format of the first largest group
\* when it has min_votes votes
_get_consensus(votes, min_votes) ==
  IF votes = <<>> THEN NoPlate
  ELSE BestGroupResult(BestGroup(_group_similar_plates(votes)), min_votes)

\* PlateVotes.__init__ at time t
PlateVotes(t) ==
  [votes |-> <<>>, first_seen |-> t, finalized |-> FALSE, final_result |-> NoPlate]

\* add_vote that keeps the votes that have left the window
add_vote_unpruned(pv, min_votes, plate_text, t) ==
  IF pv.finalized THEN [pv |-> pv, result |-> pv.final_result]
  ELSE LET votes == Append(pv.votes, [text |-> plate_text, ts |-> t])
           early == _check_early_stop(votes, min_votes)
           result == IF early # NoPlate \/ Len(votes) < min_votes THEN early
                     ELSE _get_consensus(votes, min_votes)
       IN [pv |-> [pv EXCEPT !.votes = votes,
                             !.finalized = (result # NoPlate),
                             !.final_result = result],
           result |-> result]

\* add_vote that commits one vote late
add_vote_late(pv, min_votes, plate_text, t) ==
  IF pv.finalized THEN [pv |-> pv, result |-> pv.final_result]
  ELSE LET votes == SelectSeq(Append(pv.votes, [text |-> plate_text, ts |-> t]),
                              LAMBDA v : v.ts >= t - WindowTicks)
           result == IF Len(votes) > min_votes
                     THEN _get_consensus(votes, min_votes) ELSE NoPlate
       IN [pv |-> [pv EXCEPT !.votes = votes,
                             !.finalized = (result # NoPlate),
                             !.final_result = result],
           result |-> result]

\* PlateVotes.add_vote at time t: the bucket after the call and what the
\* call returns
add_vote(pv, min_votes, plate_text, t) ==
  IF pv.finalized THEN [pv |-> pv, result |-> pv.final_result]
  ELSE LET votes == SelectSeq(Append(pv.votes, [text |-> plate_text, ts |-> t]),
                              LAMBDA v : v.ts >= t - WindowTicks)
           early == _check_early_stop(votes, min_votes)
           consensus == IF Len(votes) >= min_votes
                        THEN _get_consensus(votes, min_votes) ELSE NoPlate
           result == IF early # NoPlate THEN early ELSE consensus
       IN [pv |-> [pv EXCEPT !.votes = votes,
                             !.finalized = (result # NoPlate),
                             !.final_result = result],
           result |-> result]

\* Python round(x / 20) * 20 for an integer x >= 0: to the nearest multiple,
\* a tie going to the even quotient
RoundTo20(x) ==
  LET q == x \div 20
      r == x % 20
  IN IF r < 10 THEN q * 20
     ELSE IF r > 10 THEN (q + 1) * 20
     ELSE IF q % 2 = 0 THEN q * 20 ELSE (q + 1) * 20

\* PlateTracker._get_bbox_key
_get_bbox_key(bbox) ==
  <<RoundTo20(bbox[1]), RoundTo20(bbox[2]), RoundTo20(bbox[3]), RoundTo20(bbox[4])>>

\* a garbage collection that removes nothing
_cleanup_old_trackers_never(trackers, t) == trackers

\* PlateTracker._cleanup_old_trackers at time t
_cleanup_old_trackers(trackers, t) ==
  [k \in {key \in DOMAIN trackers : ~(t - trackers[key].first_seen > WindowTicks * 2)}
     |-> trackers[k]]

\* add_detection that makes a new PlateVotes on every call
add_detection_renewing(trackers, min_votes, bbox, plate_text, t) ==
  LET bbox_key == _get_bbox_key(bbox)
      voted == add_vote(PlateVotes(t), min_votes, plate_text, t)
      put == [k \in DOMAIN trackers \cup {bbox_key} |->
                IF k = bbox_key THEN voted.pv ELSE trackers[k]]
  IN [trackers |-> _cleanup_old_trackers(put, t), result |-> voted.result]

\* PlateTracker.add_detection at time t: the trackers after the call and
\* what the call returns
add_detection(trackers, min_votes, bbox, plate_text, t) ==
  LET bbox_key == _get_bbox_key(bbox)
      tracker == IF bbox_key \in DOMAIN trackers THEN trackers[bbox_key]
                 ELSE PlateVotes(t)
      voted == add_vote(tracker, min_votes, plate_text, t)
      put == [k \in DOMAIN trackers \cup {bbox_key} |->
                IF k = bbox_key THEN voted.pv ELSE trackers[k]]
  IN [trackers |-> _cleanup_old_trackers(put, t), result |-> voted.result]

(***************************************************************************)
(* unified_app: the ocr_logs table (core/db.py), the outbox that           *)
(* CentralSyncService drains (core/central_sync.py)                        *)
(***************************************************************************)
\* voting.dedup_interval when the configuration has none: 15.0 s, in ticks
DEDUP_DEFAULT == 30

\* the cooldown of the video worker: 5.0 s, in ticks
VIDEO_COOLDOWN == 10

\* the retry cap in the WHERE clause of get_unsynced_logs
RETRY_CAP == 5

\* the limit _sync_loop passes to get_unsynced_logs
SYNC_BATCH == 50

\* insert_ocr_log: a row with the defaults synced = 0, retry_count = 0
insert_ocr_log(logs, id, camera_id, plate_text, timestamp) ==
  IF plate_text = <<>> THEN logs
  ELSE Append(logs, [id |-> id, plate_text |-> plate_text, timestamp |-> timestamp,
                     camera_id |-> camera_id, synced |-> 0, retry_count |-> 0])

\* get_unsynced_logs that selects every row that is not synced
get_unsynced_logs_uncapped(logs, limit) ==
  LET rows == SelectSeq(logs, LAMBDA r : r.synced = 0)
  IN SubSeq(rows, 1, IF Len(rows) < limit THEN Len(rows) ELSE limit)

\* get_unsynced_logs: WHERE synced = 0 AND retry_count < 5 ORDER BY id ASC
\* LIMIT limit (the table is kept in id order)
get_unsynced_logs(logs, limit) ==
  LET rows == SelectSeq(logs, LAMBDA r : r.synced = 0 /\ r.retry_count < RETRY_CAP)
  IN SubSeq(rows, 1, IF Len(rows) < limit THEN Len(rows) ELSE limit)

\* mark_log_synced and delete_ocr_log: DELETE FROM ocr_logs WHERE id = ?
mark_log_synced(logs, log_id) == SelectSeq(logs, LAMBDA r : r.id # log_id)

\* an increment_retry_count that writes nothing
increment_retry_count_stuck(logs, log_id) == logs

\* increment_retry_count: UPDATE ... SET retry_count = retry_count + 1
increment_retry_count(logs, log_id) ==
  [i \in 1..Len(logs) |->
     IF logs[i].id = log_id THEN [logs[i] EXCEPT !.retry_count = @ + 1] ELSE logs[i]]

(***************************************************************************)
(* State                                                                   *)
(***************************************************************************)
VARIABLES
  db,       \* db[c]: the history and history_changes tables of central c
  now,      \* the wall clock, in seconds
  edges,    \* edges[c]: the keys of edge_websocket_connections on c
  peers,    \* peers[c]: the P2PManager's websocket_connections (the peers
            \* connected to /ws/p2p of c) and its connected clients
  net,      \* net[c]: the peer messages in flight towards c, in order
  sent      \* the last handler run that called broadcast_to_edges: the edge
            \* whose event it handled and the edges the event was sent to

VARIABLES
  min_votes, \* the min_votes every PlateTracker is built with
  tracker,   \* tracker[w]: the trackers dict of the PlateTracker of worker w
  tnow       \* time.time() of the camera workers, in ticks

VARIABLES
  ocr_logs,    \* the rows of the ocr_logs table, in id order
  next_log_id, \* the next AUTOINCREMENT id of ocr_logs
  unsynced     \* the rows _sync_loop has fetched and not yet sent

VARIABLES
  dedup_interval, \* voting.dedup_interval of the configuration, in ticks
  last_saved,     \* last_saved[w]: last_saved_plate and last_saved_ts of worker w
  delivered       \* delivered[id]: how many times /api/edge/ocr has answered
                  \* 200 to a request made for the ocr_logs row id

VARIABLES
  channel_table, \* on central c1: edge_websocket_connections (.edge) and
                 \* p2p_manager.websocket_connections (.p2p), id -> channel
  handlers,      \* the /ws/edge and /ws/p2p tasks: open in their receive loop,
                 \* or past their finally block
  next_channel,  \* the number of the next WebSocket that is accepted
  history_websocket_clients, \* on central c1: the set of /ws/history clients
  cast           \* the broadcast loop in progress on central c1, or the last one

VARIABLES
  config_peers, \* on central c1: the ids of peer_centrals in p2p_config.json
  p2p_clients,  \* P2PManager.clients: peer id -> the P2PClient object
  client,       \* client[o]: the fields and the position of P2PClient object o
  reloads,      \* the reload_config tasks created and not yet ended
  finished      \* how the last reload_config call to end has ended

vars == <<db, now, edges, peers, net, sent, min_votes, tracker, tnow, ocr_logs, next_log_id, unsynced, dedup_interval, last_saved, delivered, channel_table, handlers, next_channel, history_websocket_clients, cast, config_peers, p2p_clients, client, reloads, finished>>

sockets == <<channel_table, handlers, next_channel, history_websocket_clients, cast>>

\* the state of the central servers, and the state of the camera workers
central == <<db, now, edges, peers, net, sent, sockets>>
voting == <<min_votes, tracker, tnow>>
outbox == <<ocr_logs, next_log_id, unsynced>>
saving == <<dedup_interval, last_saved, delivered>>
camera == <<voting, outbox, saving>>

\* the P2P clients of central c1 and the reload_config tasks over them
dialing == <<config_peers, p2p_clients, client, reloads, finished>>

Workers == {"w1", "w2"}

\* PlateTracker.__init__: no bucket
NoTrackers == [k \in {} |-> PlateVotes(0)]

\* no broadcast has run
NoCast == [phase |-> "idle", kind |-> "history", size |-> 0, visited |-> {}, got |-> {}, disconnected |-> {}, stayed |-> {}]

\* the peers central c1 can be configured with
PeerIds == {"c2", "c3"}

\* a P2PClient that has not been constructed
NoClient == [peer_id |-> "NONE", running |-> FALSE, connected |-> FALSE, websocket |-> FALSE, at |-> "none", stopped |-> FALSE, late |-> {}]

\* no reload_config call has ended
NoReload == [how |-> "none", new_peer_ids |-> {}, before |-> <<>>, after |-> <<>>, started |-> {}]

\* P2PManager.start in standalone mode: no peer configured, no client built
DialInit ==
  /\ config_peers = {}
  /\ p2p_clients = <<>>
  /\ client = [o \in 1..MaxClients |-> NoClient]
  /\ reloads = <<>>
  /\ finished = NoReload

\* no WebSocket has been accepted on central c1
SocketsInit ==
  /\ channel_table = [edge |-> <<>>, p2p |-> <<>>]
  /\ handlers = {}
  /\ next_channel = 1
  /\ history_websocket_clients = {}
  /\ cast = NoCast
  /\ DialInit

\* init_db on an empty file, and a CentralSyncService that has not fetched
OutboxInit ==
  /\ ocr_logs = <<>>
  /\ next_log_id = 1
  /\ unsynced = <<>>

\* the fields last_saved_plate = "" and last_saved_ts = 0.0 of a new worker
NeverSaved == [plate |-> <<>>, ts |-> 0]

\* the workers before their first commit, dedup_interval left at its default
SavingInit ==
  /\ dedup_interval = DEDUP_DEFAULT
  /\ last_saved = [w \in Workers |-> NeverSaved]
  /\ delivered = [id \in 1..MaxLogs |-> 0]

\* the camera workers as camera_worker.py builds them, min_votes = 2
CameraInit ==
  /\ min_votes = 2
  /\ tracker = [w \in Workers |-> NoTrackers]
  /\ tnow = 0
  /\ OutboxInit
  /\ SavingInit

NoEdge == "NONE"

NothingSent == [central |-> "c1", from |-> NoEdge, to |-> {}]

\* the loop of broadcast_history_update and of broadcast_to_edges: for each
\* subscriber the send is tried inside try / except; a send that raises puts
\* the subscriber in disconnected and the loop goes on (the loop is taken as
\* one step: no subscriber connects or disconnects while it runs)
RECURSIVE SendLoop(_, _, _)
SendLoop(todo, failed, acc) ==
  IF todo = {} THEN acc
  ELSE LET x == CHOOSE y \in todo : TRUE
       IN SendLoop(todo \ {x}, failed,
                   IF x \in failed
                   THEN [acc EXCEPT !.disconnected = @ \cup {x}]
                   ELSE [acc EXCEPT !.to = @ \cup {x}])

\* a loop that a send error unwinds: nothing more is sent, nothing is removed
broadcast_to_edges_unwind(connections, failed) ==
  IF connections \cap failed = {}
  THEN [tried |-> connections, to |-> connections, connections |-> connections]
  ELSE [tried |-> connections \cap failed, to |-> {}, connections |-> connections]

\* broadcast_to_edges: send_json is tried on every connection; the edges
\* whose send raises are removed from the connections after the loop
broadcast_to_edges(connections, failed) ==
  LET r == SendLoop(connections, failed, [to |-> {}, disconnected |-> {}])
  IN [tried |-> r.to \cup r.disconnected, to |-> r.to,
      connections |-> connections \ r.disconnected]

\* the frontend connections history_websocket_clients can hold
HistoryClients == {"f1", "f2"}

\* broadcast_history_update: send_text is tried on every client; the clients
\* whose send raises are discarded after the loop
broadcast_history_update(clients, failed) ==
  LET r == SendLoop(clients, failed, [to |-> {}, disconnected |-> {}])
  IN [tried |-> r.to \cup r.disconnected, to |-> r.to,
      clients |-> clients \ r.disconnected]

\* P2PManager.__init__: no connection in either direction
NoPeers == [websocket_connections |-> {}, clients |-> {}]

\* the number of connections of central c that lead to peer q
Copies(c, q) ==
  (IF q \in peers[c].websocket_connections THEN 1 ELSE 0)
  + (IF q \in peers[c].clients THEN 1 ELSE 0)

\* P2PManager.broadcast: the message is sent on every connection of
\* websocket_connections, then on every connected client
Broadcast(c, msgs, inflight) ==
  [q \in Centrals |->
     inflight[q]
     \o (IF q \in peers[c].websocket_connections THEN msgs ELSE <<>>)
     \o (IF q \in peers[c].clients THEN msgs ELSE <<>>)]

\* the bounds on the tables and on the messages in flight
WithinBounds(c, out) ==
  /\ out.db.next_id <= MaxRows + 1
  /\ Len(out.db.changes) <= MaxChanges
  /\ \A q \in Centrals : Len(net[q]) + Copies(c, q) * Len(out.p2p) <= MaxNet

\* the effect of one handler run on central c: the database is replaced,
\* the P2P messages are sent, broadcast_to_edges sends each edge event to
\* every connected edge
Apply(c, edge, out, inflight) ==
  /\ WithinBounds(c, out)
  /\ db' = [db EXCEPT ![c] = out.db]
  /\ net' = Broadcast(c, out.p2p, inflight)
  /\ IF out.cast = <<>>
     THEN UNCHANGED <<sent, edges, dialing>>
     ELSE \E failed \in SUBSET edges[c] :
            LET b == broadcast_to_edges(edges[c], failed)
            IN /\ sent' = [central |-> c, from |-> edge, to |-> b.to]
               /\ edges' = [edges EXCEPT ![c] = b.connections]
  /\ UNCHANGED <<now, peers, camera, sockets, dialing>>

(***************************************************************************)
(* Inputs                                                                  *)
(***************************************************************************)
Times == {k * ClockStep : k \in 0..MaxClock}

\* event ids an edge puts in its envelopes, and ids authored by a peer
EdgeEventIds == {MkEventId("e1", 0, TextA)}
PeerEventIds == {MkEventId("c2", 0, TextA), MkEventId("c2", 2 * ClockStep * 1000, TextA)}

Locations == {<<"L", "o", "t", "A">>}

EntryExitEnvs ==
  { Env(type, "e1", type, text, id, 0, NoText) :
      type \in {"ENTRY", "EXIT"}, text \in {TextA, TextADashed, TextShort},
      id \in {NoEventId} \cup EdgeEventIds }

ParkingLotEnvs ==
  { Env(type, "e1", "PARKING_LOT", TextA, id, 0, loc) :
      type \in {"ENTRY", "LOCATION_UPDATE"}, id \in {NoEventId} \cup EdgeEventIds,
      loc \in Locations }

AdminEnvs ==
  { Env(type, "e1", "ENTRY", text, id, h, NoText) :
      type \in {"UPDATE", "DELETE"}, text \in PlateIds,
      id \in {NoEventId} \cup EdgeEventIds, h \in 0..MaxRows }

PeerMessages ==
  { create_entry_pending_message("c2", id, id[3], id[3], 0) : id \in PeerEventIds }
  \cup { create_exit_message("c2", id, id[3], ClockStep, 0, <<0, 30>>) :
         id \in PeerEventIds \cup EdgeEventIds }
  \cup { create_location_update_message("c2", id, id[3], loc, 0, a) :
         id \in PeerEventIds, loc \in Locations, a \in BOOLEAN }
  \cup { create_history_update_message("c2", h, p, p) : h \in 1..MaxRows, p \in PlateIds }
  \cup { create_history_delete_message("c2", h) : h \in 1..MaxRows }

(***************************************************************************)
(* Actions                                                                 *)
(***************************************************************************)
Init ==
  /\ db = [c \in Centrals |-> EmptyDb]
  /\ now = 0
  /\ edges = [c \in Centrals |-> {}]
  /\ peers = [c \in Centrals |-> NoPeers]
  /\ net = [c \in Centrals |-> <<>>]
  /\ sent = NothingSent
  /\ CameraInit
  /\ SocketsInit

\* time passes
Tick ==
  /\ now < MaxClock * ClockStep
  /\ now' = now + ClockStep
  /\ UNCHANGED <<db, edges, peers, net, sent, camera, sockets, dialing>>

\* an edge identifies itself on /ws/edge (websocket_edge_connection)
EdgeConnect(c, e) ==
  /\ e \notin edges[c]
  /\ edges' = [edges EXCEPT ![c] = @ \cup {e}]
  /\ UNCHANGED <<db, now, peers, net, sent, camera, sockets, dialing>>

\* the edge's connection closes
EdgeDisconnect(c, e) ==
  /\ e \in edges[c]
  /\ edges' = [edges EXCEPT ![c] = @ \ {e}]
  /\ UNCHANGED <<db, now, peers, net, sent, camera, sockets, dialing>>

\* POST /api/edge/event
HttpEvent(c, env) ==
  \E out \in receive_edge_event(db[c], c, env, now) : Apply(c, NoEdge, out, net)

\* an event arrives on the WebSocket of the connected edge e
WsEvent(c, e, env) ==
  /\ e \in edges[c]
  /\ \E out \in handle_edge_websocket_event(db[c], c, env, now) : Apply(c, e, out, net)

\* PUT /api/parking/history/{id}
AdminPut(c, history_id, plate) ==
  \E out \in {put_history_entry(db[c], c, history_id, plate, plate)} :
    Apply(c, NoEdge, out, net)

\* DELETE /api/parking/history/{id}
AdminDelete(c, history_id) ==
  \E out \in {delete_history_route(db[c], c, history_id)} : Apply(c, NoEdge, out, net)

\* a message from a peer outside the model is received and handled
PeerMessage(c, m) ==
  \E out \in _handle_message(db[c], m, now) : Apply(c, NoEdge, out, net)

\* the oldest message in flight towards c is received and handled
Deliver(c) ==
  /\ net[c] # <<>>
  /\ \E out \in _handle_message(db[c], Head(net[c]), now) :
       Apply(c, NoEdge, out, [net EXCEPT ![c] = Tail(@)])

Local == "c1"

Connections == \/ \E e \in Edges : EdgeConnect(Local, e)
               \/ \E e \in Edges : EdgeDisconnect(Local, e)

PeerEntryExit ==
  {m \in PeerMessages : m.type \in {"VEHICLE_ENTRY_PENDING", "VEHICLE_EXIT"}}

PeerLocation == {m \in PeerMessages : m.type = "LOCATION_UPDATE"}

PeerAdmin == {m \in PeerMessages : m.type \in {"HISTORY_UPDATE", "HISTORY_DELETE"}}

\* every operation of one central
Next ==
  \/ Tick
  \/ Connections
  \/ \E env \in EntryExitEnvs : HttpEvent(Local, env)
  \/ \E e \in Edges, env \in EntryExitEnvs \cup ParkingLotEnvs \cup AdminEnvs :
       WsEvent(Local, e, env)
  \/ \E h \in 1..MaxRows, p \in PlateIds : AdminPut(Local, h, p)
  \/ \E h \in 1..MaxRows : AdminDelete(Local, h)
  \/ \E m \in PeerMessages : PeerMessage(Local, m)

Spec == Init /\ [][Next]_vars

\* ENTRY and EXIT on the four ingress paths of one central
NextEntryExit ==
  \/ Tick
  \/ Connections
  \/ \E env \in EntryExitEnvs : HttpEvent(Local, env)
  \/ \E e \in Edges, env \in EntryExitEnvs : WsEvent(Local, e, env)
  \/ \E m \in PeerEntryExit : PeerMessage(Local, m)

SpecEntryExit == Init /\ [][NextEntryExit]_vars

\* entries, exits and the admin corrections of rows on one central
NextAdmin ==
  \/ Connections
  \/ \E env \in EntryExitEnvs : HttpEvent(Local, env)
  \/ \E e \in Edges, env \in AdminEnvs : WsEvent(Local, e, env)
  \/ \E h \in 1..MaxRows, p \in PlateIds : AdminPut(Local, h, p)
  \/ \E h \in 1..MaxRows : AdminDelete(Local, h)
  \/ \E m \in PeerAdmin : PeerMessage(Local, m)

SpecAdmin == Init /\ [][NextAdmin]_vars

\* entries, exits and the location reports of parking-lot cameras
NextLocation ==
  \/ Tick
  \/ Connections
  \/ \E env \in EntryExitEnvs : HttpEvent(Local, env)
  \/ \E e \in Edges, env \in ParkingLotEnvs : WsEvent(Local, e, env)
  \/ \E m \in PeerLocation : PeerMessage(Local, m)

SpecLocation == Init /\ [][NextLocation]_vars

\* the client of c1 is connected to /ws/p2p of c2, the client of c2 is not
\* connected: each central reaches the other on one connection
OneLink ==
  [c \in Centrals |->
     IF c = "c1" THEN [websocket_connections |-> {}, clients |-> {"c2"}]
     ELSE [websocket_connections |-> {"c1"}, clients |-> {}]]

\* two centrals that gossip their entries to each other
InitMesh ==
  /\ db = [c \in Centrals |-> EmptyDb]
  /\ now = 0
  /\ edges = [c \in Centrals |-> {}]
  /\ peers = OneLink
  /\ net = [c \in Centrals |-> <<>>]
  /\ sent = NothingSent
  /\ CameraInit
  /\ SocketsInit

MeshEnvs ==
  { Env("ENTRY", "e1", "ENTRY", text, NoEventId, 0, NoText) : text \in {TextA, TextB} }

NextMesh ==
  \/ Tick
  \/ \E c \in Centrals, env \in MeshEnvs : HttpEvent(c, env)
  \/ \E c \in Centrals : Deliver(c)

SpecMesh == InitMesh /\ [][NextMesh]_vars

\* two centrals linked both ways: one takes every kind of local operation
\* and the other handles the messages it receives
LotNames == {<<"L", "o", "t", "A">>}
Capacities == {5, 8}

GossipEnvs ==
  { Env(type, "e1", type, TextA, NoEventId, 0, NoText) : type \in {"ENTRY", "EXIT"} }
  \cup { Env("LOCATION_UPDATE", "e1", "PARKING_LOT", TextA, id, 0, loc) :
          id \in EdgeEventIds, loc \in Locations }

\* POST /api/edge/sync-config
SyncConfig(c, location_name, capacity) ==
  \E out \in {sync_edge_config(db[c], c, location_name, capacity, 1)} :
    Apply(c, NoEdge, out, net)

\* the central that takes the local operations; the other one hears of them
Remote == "c2"

NextGossip ==
  \/ \E env \in GossipEnvs : HttpEvent(Remote, env)
  \/ \E env \in GossipEnvs : WsEvent(Remote, "e1", env)
  \/ AdminPut(Remote, 1, TextB)
  \/ AdminDelete(Remote, 1)
  \/ \E l \in LotNames, k \in Capacities : SyncConfig(Remote, l, k)
  \/ \E c \in Centrals : Deliver(c)

InitGossip ==
  /\ db = [c \in Centrals |-> EmptyDb]
  /\ now = 0
  /\ edges = [c \in Centrals |-> IF c = Remote THEN {"e1"} ELSE {}]
  /\ peers = OneLink
  /\ net = [c \in Centrals |-> <<>>]
  /\ sent = NothingSent
  /\ CameraInit
  /\ SocketsInit

SpecGossip == InitGossip /\ [][NextGossip]_vars

\* P2PClient._connect on central c towards peer q: the client sends its
\* identification, /ws/p2p of q registers the connection under the id of c
ClientConnect(c, q) ==
  /\ q \notin peers[c].clients
  /\ peers' = [peers EXCEPT ![c].clients = @ \cup {q},
                            ![q].websocket_connections = @ \cup {c}]
  /\ UNCHANGED <<db, now, edges, net, sent, camera, sockets, dialing>>

\* the connection of the client of c to q closes: both ends forget it
ClientDisconnect(c, q) ==
  /\ q \in peers[c].clients
  /\ peers' = [peers EXCEPT ![c].clients = @ \ {q},
                            ![q].websocket_connections = @ \ {c}]
  /\ UNCHANGED <<db, now, edges, net, sent, camera, sockets, dialing>>

\* two centrals whose clients connect to each other and disconnect
NextLinks ==
  \/ \E c \in Centrals : \E q \in Centrals \ {c} : ClientConnect(c, q)
  \/ \E c \in Centrals : \E q \in Centrals \ {c} : ClientDisconnect(c, q)
  \/ \E c \in Centrals, env \in MeshEnvs : HttpEvent(c, env)
  \/ \E c \in Centrals : Deliver(c)

SpecLinks == Init /\ [][NextLinks]_vars

\* the whole life of the rows of one plate on one central: entries, exits
\* and location reports from the edges and from a peer
LifecycleEnvs ==
  {env \in EntryExitEnvs : env.plate_text = TextA} \cup ParkingLotEnvs

NextLifecycle ==
  \/ Tick
  \/ EdgeConnect(Local, "e1")
  \/ \E env \in LifecycleEnvs : HttpEvent(Local, env)
  \/ \E env \in LifecycleEnvs : WsEvent(Local, "e1", env)
  \/ \E m \in PeerEntryExit \cup PeerLocation : PeerMessage(Local, m)

SpecLifecycle == Init /\ [][NextLifecycle]_vars

\* every operation that writes to an existing row: exits, location reports
\* and admin corrections, local and from a peer
RowWriteEnvs ==
  {env \in EntryExitEnvs : env.plate_text = TextA /\ env.event_id = NoEventId}
  \cup {env \in ParkingLotEnvs : env.type = "LOCATION_UPDATE"}

RowWritePeers ==
  {m \in PeerMessages : m.type \in {"VEHICLE_EXIT", "LOCATION_UPDATE", "HISTORY_UPDATE"}}

NextRowWrites ==
  \/ EdgeConnect(Local, "e1")
  \/ \E env \in RowWriteEnvs : HttpEvent(Local, env)
  \/ \E env \in RowWriteEnvs : WsEvent(Local, "e1", env)
  \/ AdminPut(Local, 1, TextB)
  \/ \E m \in RowWritePeers : PeerMessage(Local, m)

SpecRowWrites == Init /\ [][NextRowWrites]_vars

\* the wall clock readings of the visits that are priced, in seconds of the
\* day: around the free half hour, around the end of the first paid hour,
\* and 10:00:00 and 11:30:00
FeeTimes == {0, 1, 1800, 1801, 5400, 5401, 36000, 41400}

FeeEnvs ==
  { Env(type, "e1", type, TextA, NoEventId, 0, NoText) : type \in {"ENTRY", "EXIT"} }

\* datetime.now() at the next request: the wall clock may read any time,
\* earlier ones included
ClockSet(t) ==
  /\ t # now
  /\ now' = t
  /\ UNCHANGED <<db, edges, peers, net, sent, camera, sockets, dialing>>

NextFee ==
  \/ \E t \in FeeTimes : ClockSet(t)
  \/ \E env \in FeeEnvs : HttpEvent(Local, env)

SpecFee == Init /\ [][NextFee]_vars

(***************************************************************************)
(* Properties                                                              *)
(***************************************************************************)
\* the rows of central c that hold plate as a vehicle inside
LiveRows(c, plate) ==
  {i \in 1..Len(db[c].history) :
     /\ db[c].history[i].plate_id = plate
     /\ db[c].history[i].status = "IN"
     /\ db[c].history[i].exit_time = NoInt}

\* C1: whatever the interleaving of ENTRY and EXIT events for a plate on the
\* HTTP edge endpoint, the edge WebSocket and the peer messages
\* VEHICLE_ENTRY_PENDING and VEHICLE_EXIT, a central never holds more than
\* one row of the plate with status IN and no exit time
C1_OneLiveRowPerPlate ==
  \A plate \in PlateIds : Cardinality(LiveRows(Local, plate)) <= 1

\* C1: the plate entered through a peer, left, and entered again locally
C1_Witness ==
  \E i, j \in 1..Len(db[Local].history) :
    /\ db[Local].history[i].plate_id = TextA
    /\ db[Local].history[j].plate_id = TextA
    /\ db[Local].history[i].sync_status = "SYNCED"
    /\ db[Local].history[i].status = "OUT"
    /\ db[Local].history[j].sync_status = "LOCAL"
    /\ j \in LiveRows(Local, TextA)

\* C2: under every operation, the admin corrections of plate_id (the PUT
\* route, an edge's UPDATE, a peer's HISTORY_UPDATE) included, a central
\* never holds more than one row of a plate with status IN and no exit time
C2_OneLiveRowPerPlateAllOps ==
  \A c \in Centrals : \A plate \in PlateIds : Cardinality(LiveRows(c, plate)) < 2

\* C3: a central never holds two rows with the same non-null event_id, also
\* when a LOCATION_UPDATE or a PARKING_LOT entry is delivered again after
\* the vehicle has left
C3_UniqueEventId ==
  \A c \in Centrals : \A i, j \in 1..Len(db[c].history) :
    (i # j /\ db[c].history[i].event_id # NoEventId)
      => db[c].history[i].event_id # db[c].history[j].event_id

\* the event ids of the rows that hold plate as a vehicle inside on central c
LiveEventIds(c, plate) == {db[c].history[i].event_id : i \in LiveRows(c, plate)}

Quiescent == \A c \in Centrals : net[c] = <<>>

\* no two different event ids of a plate's IN rows carry the same timestamp
DistinctStamps ==
  \A plate \in PlateIds :
    \A a \in LiveEventIds("c1", plate), b \in LiveEventIds("c2", plate) :
      a # b => _parse_timestamp_from_event_id(a) # _parse_timestamp_from_event_id(b)

\* C4: two centrals that have received the same ENTRY events of a plate,
\* locally or through gossip, hold an IN row with the same event_id for the
\* plate once no message is in flight
C4_Convergence ==
  (Quiescent /\ DistinctStamps) =>
    \A plate \in PlateIds : LiveEventIds("c1", plate) = LiveEventIds("c2", plate)

EntryPendingMessages == {m \in PeerMessages : m.type = "VEHICLE_ENTRY_PENDING"}

\* C5: a VEHICLE_ENTRY_PENDING for a plate whose IN row carries an event_id
\* with a larger timestamp replaces that row, so that the plate's only IN row
\* carries the incoming event_id; when the local timestamp is smaller or
\* equal the tables stay as they are
C5_OlderEntryWins ==
  \A m \in EntryPendingMessages : \A i \in LiveRows(Local, m.plate_id) :
    LET local == db[Local].history[i].event_id
    IN (local # NoEventId /\ ~event_exists(db[Local], m.event_id))
       => \A out \in handle_vehicle_entry_pending(db[Local], m, now) :
            IF _parse_timestamp_from_event_id(m.event_id)
                 < _parse_timestamp_from_event_id(local)
            THEN { r.event_id : r \in { out.db.history[k] : k \in
                     { k \in 1..Len(out.db.history) :
                         /\ out.db.history[k].plate_id = m.plate_id
                         /\ out.db.history[k].status = "IN" } } } = {m.event_id}
            ELSE out.db = db[Local]

EntryEnvs == {env \in EntryExitEnvs : env.type = "ENTRY"}
ExitEnvs == {env \in EntryExitEnvs : env.type = "EXIT"}

\* the two ingress handlers of edge events
Ingress(d, env, t) ==
  [http |-> receive_edge_event(d, Local, env, t),
   ws |-> handle_edge_websocket_event(d, Local, env, t)]

\* C6: when an ENTRY envelope that was accepted is delivered again, now or
\* later, the tables stay as the first delivery left them, with one row for
\* the envelope, and the HTTP endpoint answers the second delivery with
\* success and deduped = true
C6_RedeliveryDeduped ==
  \A env \in EntryEnvs : \A way \in {"http", "ws"} :
    \A first \in Ingress(db[Local], env, now)[way] :
      (first.result.success /\ ~first.result.deduped)
        => \A t \in {t \in Times : t >= now} :
             \A second \in Ingress(first.db, env, t)[way] :
               /\ second.db = first.db
               /\ way = "http" => (second.result.success /\ second.result.deduped)

\* C7: handling a peer message a second time leaves the history and the
\* history_changes tables as the first handling left them
C7_PeerRedeliveryIdempotent ==
  \A m \in PeerMessages :
    \A first \in _handle_message(db[Local], m, now) :
      \A second \in _handle_message(first.db, m, now) :
        /\ second.db.history = first.db.history
        /\ second.db.changes = first.db.changes

\* C8: an EXIT event on either ingress, with or without an event_id, turns
\* the IN row of its plate into an OUT row with exit time, duration and fee
\* set; when the plate has no IN row the event is refused and no row changes
C8_ExitCompletesOrFails ==
  \A env \in ExitEnvs : \A way \in {"http", "ws"} :
    LET plate == _normalize_plate(env.plate_text)[1]
        live == LiveRows(Local, plate)
    IN plate # NoText =>
         \A out \in Ingress(db[Local], env, now)[way] :
           IF live # {}
           THEN \E i \in live :
                  /\ out.db.history[i].status = "OUT"
                  /\ out.db.history[i].exit_time = now
                  /\ out.db.history[i].duration # NoText
                  /\ out.db.history[i].fee =
                       _calculate_fee(db[Local].history[i].entry_time, now)[2]
           ELSE /\ ~out.result.success
                /\ out.db.history = db[Local].history

\* C9: every row an ENTRY event created, on the HTTP endpoint or on the
\* edge WebSocket, carries an event_id
C9_EntryRowsHaveEventId ==
  \A i \in 1..Len(db[Local].history) :
    db[Local].history[i].sync_status = "LOCAL"
      => db[Local].history[i].event_id # NoEventId

\* C10: the event an edge sent is not sent back to that edge by
\* broadcast_to_edges
C10_NoEchoToOrigin == sent.from \notin sent.to

\* C11: handling a message received from a peer (VEHICLE_ENTRY_PENDING,
\* VEHICLE_EXIT, LOCATION_UPDATE, HISTORY_UPDATE, HISTORY_DELETE,
\* PARKING_LOT_CONFIG) sends no P2P message: in the step that takes the head
\* of net[c] and handles it, no queue towards any central gains a message,
\* so the mutation never travels back to the peer it came from
C11_NoPeerEcho ==
  [][\A c \in Centrals :
       (net[c] # <<>> /\ net'[c] = Tail(net[c]))
       => \A q \in Centrals \ {c} : net'[q] = net[q]]_vars

\* every kind of peer message has been handled by c1 and changed its tables
C11_Witness ==
  /\ \E i \in DOMAIN db["c1"].history :
       /\ db["c1"].history[i].source_central = "c2"
       /\ db["c1"].history[i].status = "OUT"
  /\ db["c1"].lots # {}
  /\ db["c1"].changes # <<>>
  /\ net = [c \in Centrals |-> <<>>]

\* C12: when a central applies a local event and P2PManager.broadcast sends
\* its message, every connected peer (inbound /ws/p2p connection, connected
\* outbound client, or both) is sent the message exactly once
C12_ExactlyOncePerPeer ==
  [][\A c \in Centrals :
       (db'[c] # db[c] /\ net'[c] = net[c])
       => \A q \in Centrals \ {c} :
            Copies(c, q) > 0 => Len(net'[q]) = Len(net[q]) + 1]_vars

\* C13: every event that changes the tables of the central, whether it comes
\* over HTTP, from a connected edge or from a peer, is handed to
\* broadcast_to_edges when an edge other than the originating one is
\* connected, and broadcast_to_edges tries every such edge
C13_AppliedEventReachesEdges ==
  /\ \A env \in EntryExitEnvs :
       \A out \in receive_edge_event(db[Local], Local, env, now) :
         (out.db # db[Local] /\ edges[Local] # {}) => out.cast # <<>>
  /\ \A m \in PeerEntryExit :
       \A out \in _handle_message(db[Local], m, now) :
         (out.db # db[Local] /\ edges[Local] # {}) => out.cast # <<>>
  /\ \A e \in edges[Local], env \in EntryExitEnvs :
       \A out \in handle_edge_websocket_event(db[Local], Local, env, now) :
         (out.db # db[Local] /\ edges[Local] \ {e} # {}) => out.cast # <<>>
  /\ \A failed \in SUBSET edges[Local] :
       broadcast_to_edges(edges[Local], failed).tried = edges[Local]

Lifecycle(r) ==
  <<r.status, r.entry_time, r.exit_time, r.duration, r.fee, r.last_location>>

\* C15: in every step of ENTRY, EXIT, LOCATION_UPDATE and the peer messages,
\* a row changes its status only from IN to OUT, and a row that is OUT keeps
\* its status, entry_time, exit_time, duration, fee and last_location
C15_OutRowsAreFrozen ==
  [][\A i \in DOMAIN db[Local].history, j \in DOMAIN db'[Local].history :
       LET r == db[Local].history[i]
           q == db'[Local].history[j]
       IN r.id = q.id =>
            /\ r.status = "OUT" => Lifecycle(q) = Lifecycle(r)
            /\ q.status # r.status => (r.status = "IN" /\ q.status = "OUT")]_vars

\* a row of the plate is OUT and kept its columns while the next visit of the
\* plate, a later row, is IN and was given a location
C15_Witness ==
  \E i, j \in DOMAIN db[Local].history :
    LET r == db[Local].history[i]
        q == db[Local].history[j]
    IN /\ r.id < q.id /\ r.plate_id = q.plate_id
       /\ r.status = "OUT" /\ r.last_location = NoText /\ r.exit_time > r.entry_time
       /\ q.status = "IN" /\ q.last_location # NoText

\* the rows of the plate with status IN in a database
InRows(d, plate) == {r \in SeqToSet(d.history) : r.plate_id = plate /\ r.status = "IN"}

\* what one PARKING_LOT detection of the plate may do to database d
DetectionEffect(d, plate, location, out) ==
  \/ /\ InRows(d, plate) # {}
     /\ out.db = update_vehicle_location(d, plate, location)
     /\ Len(out.db.history) = Len(d.history)
     /\ \A r \in InRows(out.db, plate) : r.last_location = location
  \/ /\ InRows(d, plate) = {}
     /\ Len(out.db.history) = Len(d.history) + 1
     /\ SubSeq(out.db.history, 1, Len(d.history)) = d.history
     /\ out.db.history[Len(out.db.history)].status = "IN"
     /\ out.db.history[Len(out.db.history)].is_anomaly = 1
     /\ out.db.history[Len(out.db.history)].plate_id = plate

ParkingLotEntryEnvs ==
  { Env(type, "e1", "PARKING_LOT", TextA, id, 0, loc) :
      type \in {"ENTRY", "DETECTION"}, id \in {NoEventId} \cup EdgeEventIds,
      loc \in Locations }

\* C17: an ENTRY or DETECTION whose camera_type is PARKING_LOT, on POST
\* /api/edge/event or on the edge WebSocket, sets last_location on the IN
\* row of the plate, or creates an IN row with is_anomaly = 1 when the plate
\* is not IN; it is never answered already inside
C17_ParkingLotEntryIsDetection ==
  \A env \in ParkingLotEntryEnvs :
    ~event_exists(db[Local], env.event_id) =>
      \A out \in receive_edge_event(db[Local], Local, env, now)
                 \cup handle_edge_websocket_event(db[Local], Local, env, now) :
        /\ ~out.result.already_inside
        /\ DetectionEffect(db[Local], env.plate_text, env.location, out)

\* C18: an ENTRY for a plate that has an IN row is refused as already
\* inside, the error carries the event_id of that IN row, and no row is
\* added
C18_AlreadyInsideCarriesEventId ==
  \A text \in {TextA, TextADashed}, id \in {NoEventId} \cup EdgeEventIds :
    LET plate == _normalize_plate(Upper(text))[1]
    IN InRows(db[Local], plate) # {} =>
         \A o \in process_edge_event(db[Local], "ENTRY", "e1", text, id, now) :
           /\ ~o.result.success
           /\ o.result.already_inside
           /\ o.db = db[Local]
           /\ \E r \in InRows(db[Local], plate) : o.result.event_id = r.event_id

\* C19: in every step, a row that exists before and after the step has the
\* event_id it had: the exits (local and from a peer), the location updates
\* and the admin UPDATE leave the event_id of the row as it was inserted
C19_EventIdIsStable ==
  [][\A i \in DOMAIN db[Local].history, j \in DOMAIN db'[Local].history :
       db[Local].history[i].id = db'[Local].history[j].id
       => db'[Local].history[j].event_id = db[Local].history[i].event_id]_vars

\* a row that was given a location, was closed by an exit and had its plate
\* corrected by an admin UPDATE still carries the event_id of its insertion
C19_Witness ==
  \E i \in DOMAIN db[Local].history :
    LET r == db[Local].history[i]
    IN /\ r.status = "OUT"
       /\ r.last_location # NoText
       /\ r.event_id # NoEventId
       /\ r.plate_id # r.event_id[3]
       /\ db[Local].changes # <<>>

\* the fee the rule gives for a duration in seconds: 0 up to the free
\* time, then fee_per_hour for every hour begun after it
FeeRule(duration_seconds, fee) ==
  IF duration_seconds <= FEE_BASE_SECONDS THEN fee = 0
  ELSE \E k \in 1..24 :
         /\ fee = k * FEE_PER_HOUR
         /\ k * SecondsPerHour >= duration_seconds - FEE_BASE_SECONDS
         /\ (k - 1) * SecondsPerHour < duration_seconds - FEE_BASE_SECONDS

\* C20: for durations in whole seconds the fee of an exit is 0 when the
\* duration is at most fee_base hours (a non-positive duration included) and
\* ceil(duration_hours - fee_base) * fee_per_hour otherwise; an entry at
\* 10:00:00 with the exit at 11:30:00 is charged 25000
C20_FeeRule ==
  /\ \A a \in FeeTimes, b \in FeeTimes : FeeRule(b - a, _calculate_fee(a, b)[2])
  /\ \A a \in FeeTimes, b \in FeeTimes : b - a <= 0 => _calculate_fee(a, b)[2] = 0
  /\ _calculate_fee(36000, 41400)[2] = 25000
  /\ \A i \in DOMAIN db[Local].history :
       db[Local].history[i].status = "OUT"
       => FeeRule(db[Local].history[i].exit_time - db[Local].history[i].entry_time,
                  db[Local].history[i].fee)

\* a vehicle that entered at 10:00:00 has left at 11:30:00 and was charged
\* 25000, and a visit that ended before the clock reading of its entry was
\* charged nothing
C20_Witness ==
  \E i, j \in DOMAIN db[Local].history :
    /\ db[Local].history[i].status = "OUT"
    /\ db[Local].history[i].entry_time = 36000
    /\ db[Local].history[i].exit_time = 41400
    /\ db[Local].history[i].fee = 25000
    /\ db[Local].history[j].status = "OUT"
    /\ db[Local].history[j].exit_time < db[Local].history[j].entry_time
    /\ db[Local].history[j].fee = 0

\* C21: update_history_entry(id, p, v) on an existing row returns true, the
\* row then reads plate_id = p and plate_view = v with its other columns as
\* before, and the last history_changes row is of type UPDATE with the row
\* before the update as old snapshot and the row after it as new snapshot;
\* for an id that does not exist it returns false and changes neither table
C21_UpdateThenRead ==
  \A h \in 0..(MaxRows + 1), p \in PlateIds, v \in {TextA, TextADashed} :
    LET d == db[Local]
        after == update_history_entry(d, h, p, v)
        before_rows == get_history_entry_by_id(d, h)
        after_rows == get_history_entry_by_id(after, h)
    IN IF before_rows = {}
       THEN ~update_history_entry_returns(d, h) /\ after = d
       ELSE /\ update_history_entry_returns(d, h)
            /\ \A r \in after_rows : r.plate_id = p /\ r.plate_view = v
            /\ \A r \in before_rows :
                 after_rows = {[r EXCEPT !.plate_id = p, !.plate_view = v]}
            /\ Len(after.history) = Len(d.history)
            /\ \A i \in DOMAIN d.history :
                 d.history[i].id # h => after.history[i] = d.history[i]
            /\ Len(after.changes) = Len(d.changes) + 1
            /\ SubSeq(after.changes, 1, Len(d.changes)) = d.changes
            /\ LET c == after.changes[Len(after.changes)]
               IN /\ c.change_type = "UPDATE" /\ c.history_id = h
                  /\ {LoadSnapshot(c.old_data[1])} = before_rows
                  /\ {LoadSnapshot(c.new_data[1])} = after_rows

\* an update has changed the plate of a row: the row reads the new plate
\* and the last change holds the old plate in its old snapshot
C21_Witness ==
  /\ db[Local].changes # <<>>
  /\ LET c == db[Local].changes[Len(db[Local].changes)]
     IN /\ c.change_type = "UPDATE"
        /\ LoadSnapshot(c.old_data[1]).plate_id # LoadSnapshot(c.new_data[1]).plate_id
        /\ \E r \in get_history_entry_by_id(db[Local], c.history_id) :
             r = LoadSnapshot(c.new_data[1])

\* C22: a row with sync_status SYNCED has a peer as source_central, and a
\* row with sync_status LOCAL or P2P has no source_central
C22_SyncStatusTellsAuthor ==
  \A i \in DOMAIN db[Local].history :
    LET r == db[Local].history[i]
    IN /\ r.sync_status = "SYNCED" => r.source_central \in Centrals \ {Local}
       /\ r.sync_status \in {"LOCAL", "P2P"} => r.source_central = NoCentral
(***************************************************************************)
(* The camera workers: votes arriving at the PlateTracker                  *)
(***************************************************************************)
\* detection boxes (x, y, w, h): the first two fall into one bucket, the
\* third lies on a rounding tie, the fourth is another bucket
Bboxes == {<<100, 100, 60, 20>>, <<104, 98, 62, 21>>, <<110, 100, 60, 20>>, <<200, 100, 60, 20>>}

\* the bucket of a key: the stored one, or the one add_detection creates
BucketOf(trackers, bbox_key, t) ==
  IF bbox_key \in DOMAIN trackers THEN trackers[bbox_key] ELSE PlateVotes(t)

\* worker w reads plate_text in the box bbox: add_detection(bbox, plate_text)
RECURSIVE StoredVotes(_)
StoredVotes(trackers) ==
  IF DOMAIN trackers = {} THEN 0
  ELSE LET k == CHOOSE key \in DOMAIN trackers : TRUE
       IN Len(trackers[k].votes)
          + StoredVotes([key \in DOMAIN trackers \ {k} |-> trackers[key]])

AddDetection(w, bbox, plate_text) ==
  /\ StoredVotes(tracker[w]) < MaxVotes
  /\ tracker' = [tracker EXCEPT ![w] =
                   add_detection(@, min_votes, bbox, plate_text, tnow).trackers]
  /\ UNCHANGED <<min_votes, tnow, central, outbox, saving, dialing>>

\* time passes at the camera workers
CameraTick(d) ==
  /\ tnow + d <= MaxTicks
  /\ tnow' = tnow + d
  /\ UNCHANGED <<min_votes, tracker, central, outbox, saving, dialing>>

\* the camera workers built with a voting.min_votes of the configuration
InitTracker ==
  /\ db = [c \in Centrals |-> EmptyDb]
  /\ now = 0
  /\ edges = [c \in Centrals |-> {}]
  /\ peers = [c \in Centrals |-> NoPeers]
  /\ net = [c \in Centrals |-> <<>>]
  /\ sent = NothingSent
  /\ min_votes \in 1..MaxMinVotes
  /\ tracker = [w \in Workers |-> NoTrackers]
  /\ tnow = 0
  /\ OutboxInit
  /\ SavingInit
  /\ SocketsInit

TrackTexts == {TextFull, TextBare, TextDot, TextDash, TextNear}

NextTracker ==
  \/ \E bbox \in Bboxes, plate_text \in TrackTexts : AddDetection("w1", bbox, plate_text)
  \/ \E d \in {WindowTicks} : CameraTick(d)

SpecTracker == InitTracker /\ [][NextTracker]_vars

\* the bucket has been fed nothing but plate_text, and every arrival is
\* still inside the window at time t
OnlyFed(pv, plate_text, t) ==
  /\ \A i \in 1..Len(pv.votes) : pv.votes[i].text = plate_text
  /\ pv.votes # <<>> => pv.votes[1].ts = pv.first_seen
  /\ t - pv.first_seen <= WindowTicks

\* C23: a fresh bucket that receives one text again and again inside the
\* window returns None on the arrivals before the min_votes-th and returns
\* the plate on the min_votes-th arrival, whatever min_votes >= 1 is
C23_CommitOnMinVotesArrival ==
  \A w \in Workers, bbox \in Bboxes, plate_text \in TrackTexts :
    LET pv == BucketOf(tracker[w], _get_bbox_key(bbox), tnow)
        arrival == Len(pv.votes) + 1
        result == add_detection(tracker[w], min_votes, bbox, plate_text, tnow).result
    IN (~pv.finalized /\ OnlyFed(pv, plate_text, tnow)) =>
         /\ arrival <= min_votes
         /\ arrival < min_votes => result = NoPlate
         /\ arrival = min_votes => result = plate_text

\* two arrivals of one text are stored and the third is about to commit
C23_Witness ==
  /\ min_votes = 3
  /\ \E k \in DOMAIN tracker["w1"] :
       /\ ~tracker["w1"][k].finalized
       /\ Len(tracker["w1"][k].votes) = 2
       /\ OnlyFed(tracker["w1"][k], TextDot, tnow)
       /\ tracker["w1"][k].votes[2].ts > tracker["w1"][k].first_seen

\* what three calls of add_detection for one box return, in order
ThreeArrivals(trackers, bbox, texts, times) ==
  LET first == add_detection(trackers, min_votes, bbox, texts[1], times[1])
      second == add_detection(first.trackers, min_votes, bbox, texts[2], times[2])
      third == add_detection(second.trackers, min_votes, bbox, texts[3], times[3])
  IN <<first.result, second.result, third.result>>

\* the times of three arrivals that start now and stay inside the window
WindowTimes == {<<tnow, tnow + d[1], tnow + d[2]>> : d \in {<<0, 0>>, <<1, 2>>, <<0, WindowTicks>>, <<WindowTicks, WindowTicks>>}}

\* C24 as stated: with min_votes = 2 the votes "29A-179.90", "29A17990",
\* "29A17990" for one box inside the window commit on the third arrival
\* and not before, and the plate is "29A-179.90"
C24_CommitOnThirdArrival ==
  min_votes = 2 =>
    \A bbox \in Bboxes :
      _get_bbox_key(bbox) \notin DOMAIN tracker["w1"] =>
        \A times \in WindowTimes :
          ThreeArrivals(tracker["w1"], bbox, <<TextFull, TextBare, TextBare>>, times)
            = <<NoPlate, NoPlate, TextFull>>

\* C24 amended: the same votes commit "29A-179.90" on the second arrival,
\* the two votes having the same alphanumerics, and the third arrival
\* returns the committed plate again
C24_CommitOnSecondArrival ==
  min_votes = 2 =>
    \A bbox \in Bboxes :
      _get_bbox_key(bbox) \notin DOMAIN tracker["w1"] =>
        \A times \in WindowTimes :
          ThreeArrivals(tracker["w1"], bbox, <<TextFull, TextBare, TextBare>>, times)
            = <<NoPlate, TextFull, TextFull>>

\* "29A-179.90" then "29A17990" have reached one bucket half a window
\* apart and the bucket has committed
C24_Witness ==
  /\ min_votes = 2
  /\ \E k \in DOMAIN tracker["w1"] :
       /\ VoteTextsOf(tracker["w1"][k].votes) = <<TextFull, TextBare>>
       /\ tracker["w1"][k].votes[2].ts > tracker["w1"][k].votes[1].ts
       /\ tracker["w1"][k].finalized
       /\ tracker["w1"][k].final_result = TextFull

\* the votes of a committed bucket that have the alphanumerics of the plate
\* it committed
WinningVotes(pv) ==
  SelectSeq(VoteTextsOf(pv.votes), LAMBDA v : AlnumUpper(v) = AlnumUpper(pv.final_result))

\* result is taken from the votes by the order both '-' and '.', then '-',
\* then '.', then the most voted
BestDisplayForm(votes, result) ==
  /\ result \in SeqToSet(votes)
  /\ IF \E v \in SeqToSet(votes) : HasDash(v) /\ HasDot(v)
     THEN HasDash(result) /\ HasDot(result)
     ELSE IF \E v \in SeqToSet(votes) : HasDash(v)
          THEN HasDash(result)
          ELSE IF \E v \in SeqToSet(votes) : HasDot(v)
               THEN HasDot(result)
               ELSE result = MostCommon(votes)

\* C25 as stated: a committed plate is, among the votes with the winning
\* alphanumerics, one with both '-' and '.' if there is one, else one with
\* '-', else one with '.', else the most voted
C25_BestDisplayFormWins ==
  \A k \in DOMAIN tracker["w1"] :
    tracker["w1"][k].finalized =>
      BestDisplayForm(WinningVotes(tracker["w1"][k]), tracker["w1"][k].final_result)

\* C25 amended: a committed plate is the most voted of the votes with the
\* winning alphanumerics when that vote has a '-' or a '.'; only when the
\* most voted has neither is it the one with both, else with '-', else with
\* '.', else the most voted
C25_MostVotedFormattedWins ==
  \A k \in DOMAIN tracker["w1"] :
    tracker["w1"][k].finalized =>
      LET votes == WinningVotes(tracker["w1"][k])
          result == tracker["w1"][k].final_result
      IN IF HasDash(MostCommon(votes)) \/ HasDot(MostCommon(votes))
         THEN result = MostCommon(votes)
         ELSE BestDisplayForm(votes, result)

\* a bucket has committed the formatted vote that came after the most
\* voted, unformatted one
C25_Witness ==
  \E k \in DOMAIN tracker["w1"] :
    /\ tracker["w1"][k].finalized
    /\ MostCommon(WinningVotes(tracker["w1"][k])) = TextBare
    /\ TextDot \in SeqToSet(WinningVotes(tracker["w1"][k]))
    /\ tracker["w1"][k].final_result = TextDash

(***************************************************************************)
(* Two camera workers, each with a PlateTracker of its own, built with the *)
(* same parameters and reading the same box                                *)
(***************************************************************************)
TwinBboxes == {<<100, 100, 60, 20>>, <<104, 98, 62, 21>>}
TwinTexts == {TextBare, TextDash}

NextTwin ==
  \/ \E w \in Workers, bbox \in TwinBboxes, plate_text \in TwinTexts : AddDetection(w, bbox, plate_text)
  \/ \E d \in {WindowTicks + 1} : CameraTick(d)

SpecTwin == InitTracker /\ [][NextTwin]_vars

\* the votes of the bucket of a key that are inside the window at time t
InWindow(trackers, bbox_key, t) ==
  SelectSeq(BucketOf(trackers, bbox_key, t).votes, LAMBDA v : v.ts >= t - WindowTicks)

\* what add_detection returns to worker w now
ResultFor(w, bbox, plate_text) ==
  add_detection(tracker[w], min_votes, bbox, plate_text, tnow).result

\* C26 as stated: the result of a step depends on nothing but the votes of
\* the bucket inside the window, so two trackers with the same parameters
\* whose buckets hold the same votes inside the window return the same
C26_ResultIsFunctionOfWindow ==
  \A bbox \in TwinBboxes, plate_text \in TwinTexts :
    InWindow(tracker["w1"], _get_bbox_key(bbox), tnow)
      = InWindow(tracker["w2"], _get_bbox_key(bbox), tnow)
    => ResultFor("w1", bbox, plate_text) = ResultFor("w2", bbox, plate_text)

\* C26 amended: the result of a step depends on the votes of the bucket
\* inside the window and on the plate the bucket has committed, if any:
\* two trackers with the same parameters that agree on both return the same
C26_ResultIsFunctionOfBucket ==
  \A bbox \in TwinBboxes, plate_text \in TwinTexts :
    LET pv1 == BucketOf(tracker["w1"], _get_bbox_key(bbox), tnow)
        pv2 == BucketOf(tracker["w2"], _get_bbox_key(bbox), tnow)
    IN (/\ InWindow(tracker["w1"], _get_bbox_key(bbox), tnow)
            = InWindow(tracker["w2"], _get_bbox_key(bbox), tnow)
        /\ pv1.finalized = pv2.finalized
        /\ pv1.final_result = pv2.final_result)
       => ResultFor("w1", bbox, plate_text) = ResultFor("w2", bbox, plate_text)

\* the two buckets agree inside the window and on having committed nothing,
\* one of them holds a vote that has left the window, and the next vote
\* commits in both
C26_Witness ==
  \E bbox \in TwinBboxes :
    /\ _get_bbox_key(bbox) \in DOMAIN tracker["w1"]
    /\ _get_bbox_key(bbox) \in DOMAIN tracker["w2"]
    /\ ~tracker["w1"][_get_bbox_key(bbox)].finalized
    /\ ~tracker["w2"][_get_bbox_key(bbox)].finalized
    /\ tracker["w1"][_get_bbox_key(bbox)].first_seen < tracker["w2"][_get_bbox_key(bbox)].first_seen
    /\ InWindow(tracker["w1"], _get_bbox_key(bbox), tnow) # <<>>
    /\ InWindow(tracker["w1"], _get_bbox_key(bbox), tnow)
         = InWindow(tracker["w2"], _get_bbox_key(bbox), tnow)
    /\ ResultFor("w1", bbox, TextDash) = TextDash
    /\ ResultFor("w2", bbox, TextDash) = TextDash

(***************************************************************************)
(* The outbox of a unified_app and the loop that drains it                 *)
(***************************************************************************)
\* a worker stores a committed plate: insert_ocr_log
InsertOcrLog(plate_text) ==
  /\ next_log_id <= MaxLogs
  /\ ocr_logs' = insert_ocr_log(ocr_logs, next_log_id, "w1", plate_text, tnow)
  /\ next_log_id' = next_log_id + 1
  /\ UNCHANGED <<unsynced, central, voting, saving, dialing>>

\* the log dialog deletes a row: delete_ocr_log
DeleteOcrLog(log_id) ==
  /\ \E i \in 1..Len(ocr_logs) : ocr_logs[i].id = log_id
  /\ ocr_logs' = mark_log_synced(ocr_logs, log_id)
  /\ UNCHANGED <<next_log_id, unsynced, central, voting, saving, dialing>>

\* _sync_loop at the top of its while loop: a new batch
SyncFetch ==
  /\ unsynced = <<>>
  /\ unsynced' = get_unsynced_logs(ocr_logs, SYNC_BATCH)
  /\ UNCHANGED <<ocr_logs, next_log_id, central, voting, saving, dialing>>

\* _sync_loop sends the next row of the batch: success is what
\* _send_log_to_central returns
SyncSend(success) ==
  /\ unsynced # <<>>
  /\ ocr_logs' = IF success THEN mark_log_synced(ocr_logs, unsynced[1].id)
                 ELSE increment_retry_count(ocr_logs, unsynced[1].id)
  /\ unsynced' = Tail(unsynced)
  /\ delivered' = IF success /\ unsynced[1].id \in DOMAIN delivered
                  THEN [delivered EXCEPT ![unsynced[1].id] = @ + 1] ELSE delivered
  /\ UNCHANGED <<next_log_id, central, voting, dedup_interval, last_saved, dialing>>

\* an exception inside the loop: the rest of the batch is dropped
SyncError ==
  /\ unsynced # <<>>
  /\ unsynced' = <<>>
  /\ UNCHANGED <<ocr_logs, next_log_id, central, voting, saving, dialing>>

NextOutbox ==
  \/ \E plate_text \in {TextBare, TextDash} : InsertOcrLog(plate_text)
  \/ \E log_id \in 1..MaxLogs : DeleteOcrLog(log_id)
  \/ SyncFetch
  \/ \E success \in BOOLEAN : SyncSend(success)
  \/ SyncError

SpecOutbox == Init /\ [][NextOutbox]_vars

\* the ids of the rows of a list
LogIds(logs) == {logs[i].id : i \in 1..Len(logs)}

\* C27: the retry_count of every outbox row stays at most 5, and a row
\* whose retry_count has reached 5 is neither in a batch the drain loop has
\* selected nor selected by its next fetch
C27_RetryCapped ==
  \A i \in 1..Len(ocr_logs) :
    /\ ocr_logs[i].retry_count <= 5
    /\ ocr_logs[i].retry_count = 5 =>
         /\ ocr_logs[i].id \notin LogIds(unsynced)
         /\ ocr_logs[i].id \notin LogIds(get_unsynced_logs(ocr_logs, SYNC_BATCH))

\* a row has failed five times while another row is still being retried
C27_Witness ==
  /\ \E i \in 1..Len(ocr_logs) : ocr_logs[i].retry_count = 5
  /\ \E i \in 1..Len(ocr_logs) : ocr_logs[i].retry_count = 1
  /\ unsynced # <<>>

(***************************************************************************)
(* The WebSocket endpoints of central c1 and its broadcast loops, one      *)
(* await at a time                                                         *)
(***************************************************************************)
ChannelKinds == {"edge", "p2p"}

\* the ids a channel of a kind can register under
ChannelIds(kind) == IF kind = "edge" THEN Edges ELSE Centrals \ {Local}

\* dict[key] = value, and dict.pop(key, None)
DictPut(d, key, value) == [k \in DOMAIN d \cup {key} |-> IF k = key THEN value ELSE d[k]]
DictPop(d, key) == [k \in DOMAIN d \ {key} |-> d[k]]

\* the key sets of the two tables as the other actions read them
KeysFollow ==
  /\ edges' = [edges EXCEPT ![Local] = DOMAIN channel_table'.edge]
  /\ peers' = [peers EXCEPT ![Local].websocket_connections = DOMAIN channel_table'.p2p]

\* the collection a broadcast loop of a kind iterates
Subscribers(kind) ==
  IF kind = "history" THEN history_websocket_clients ELSE DOMAIN channel_table.edge

\* a subscriber has left the collection: it has not stayed for the whole of
\* the broadcast in progress
Leaves(kind, who) ==
  IF cast.phase = "sending" /\ cast.kind = kind
  THEN [cast EXCEPT !.stayed = @ \ {who}]
  ELSE cast

\* websocket_edge_connection and websocket_p2p_connection up to the receive
\* loop: the identification message names id, the table maps id to this
\* WebSocket
ChannelOpen(kind, id) ==
  /\ next_channel <= MaxChannels
  /\ channel_table' = [channel_table EXCEPT ![kind] = DictPut(@, id, next_channel)]
  /\ handlers' = handlers \cup {[kind |-> kind, id |-> id, ch |-> next_channel, open |-> TRUE]}
  /\ next_channel' = next_channel + 1
  /\ cast' = IF kind = "edge" /\ id \in DOMAIN channel_table.edge
             THEN Leaves("edges", id) ELSE cast
  /\ KeysFollow
  /\ UNCHANGED <<db, now, net, sent, history_websocket_clients, camera, dialing>>

\* the finally block of websocket_edge_connection (pop) and of
\* websocket_p2p_connection (unregister_websocket_connection) when the
\* WebSocket of handler h closes
ChannelClose(h) ==
  /\ h \in handlers
  /\ h.open
  /\ handlers' = (handlers \ {h}) \cup {[h EXCEPT !.open = FALSE]}
  /\ channel_table' = [channel_table EXCEPT ![h.kind] = DictPop(@, h.id)]
  /\ cast' = IF h.kind = "edge" /\ h.id \in DOMAIN channel_table.edge
             THEN Leaves("edges", h.id) ELSE cast
  /\ KeysFollow
  /\ UNCHANGED <<db, now, net, sent, next_channel, history_websocket_clients, camera, dialing>>

\* websocket_history_updates: accept and add
HistoryConnect(f) ==
  /\ f \notin history_websocket_clients
  /\ history_websocket_clients' = history_websocket_clients \cup {f}
  /\ UNCHANGED <<db, now, edges, peers, net, sent, channel_table, handlers, next_channel, cast, camera, dialing>>

\* websocket_history_updates: the finally block, discard
HistoryDisconnect(f) ==
  /\ f \in history_websocket_clients
  /\ history_websocket_clients' = history_websocket_clients \ {f}
  /\ cast' = Leaves("history", f)
  /\ UNCHANGED <<db, now, edges, peers, net, sent, channel_table, handlers, next_channel, camera, dialing>>

\* broadcast_history_update (kind history) and broadcast_to_edges (kind
\* edges) up to the for statement: nothing happens on an empty collection,
\* else the loop starts to iterate the collection itself
CastStart(kind) ==
  /\ cast.phase # "sending"
  /\ Subscribers(kind) # {}
  /\ cast' = [phase |-> "sending", kind |-> kind, size |-> Cardinality(Subscribers(kind)),
              visited |-> {}, got |-> {}, disconnected |-> {}, stayed |-> Subscribers(kind)]
  /\ UNCHANGED <<db, now, edges, peers, net, sent, channel_table, handlers, next_channel, history_websocket_clients, camera, dialing>>

\* the for statement asks the iterator for the next subscriber: RuntimeError
\* (changed size during iteration) when the collection has another size than
\* when the loop began, which no try of the function catches; else the send
\* to the next subscriber, which succeeds (ok) or raises inside the try
CastNext(ok) ==
  /\ cast.phase = "sending"
  /\ Subscribers(cast.kind) \ cast.visited # {}
  /\ \/ /\ Cardinality(Subscribers(cast.kind)) # cast.size
        /\ cast' = [cast EXCEPT !.phase = "raised"]
     \/ /\ Cardinality(Subscribers(cast.kind)) = cast.size
        /\ \E who \in Subscribers(cast.kind) \ cast.visited :
             cast' = [cast EXCEPT !.visited = @ \cup {who},
                                  !.got = IF ok THEN @ \cup {who} ELSE @,
                                  !.disconnected = IF ok THEN @ ELSE @ \cup {who}]
  /\ UNCHANGED <<db, now, edges, peers, net, sent, channel_table, handlers, next_channel, history_websocket_clients, camera, dialing>>

\* the iterator is exhausted: RuntimeError as in CastNext, else the loop
\* ends and the subscribers whose send raised are removed
CastEnd ==
  /\ cast.phase = "sending"
  /\ Subscribers(cast.kind) \ cast.visited = {}
  /\ IF Cardinality(Subscribers(cast.kind)) # cast.size
     THEN /\ cast' = [cast EXCEPT !.phase = "raised"]
          /\ UNCHANGED <<channel_table, history_websocket_clients, edges, peers, dialing>>
     ELSE /\ cast' = [cast EXCEPT !.phase = "done"]
          /\ history_websocket_clients' =
               IF cast.kind = "history" THEN history_websocket_clients \ cast.disconnected
               ELSE history_websocket_clients
          /\ channel_table' =
               IF cast.kind = "edges"
               THEN [channel_table EXCEPT !.edge = [k \in DOMAIN @ \ cast.disconnected |-> @[k]]]
               ELSE channel_table
          /\ KeysFollow
  /\ UNCHANGED <<db, now, net, sent, handlers, next_channel, camera, dialing>>

\* the handlers there can be, with their WebSocket open
AllHandlers == {[kind |-> kind, id |-> id, ch |-> ch, open |-> TRUE] : kind \in ChannelKinds, id \in Edges \cup Centrals, ch \in 1..MaxChannels}

NextSockets ==
  \/ \E e \in Edges : ChannelOpen("edge", e)
  \/ \E h \in AllHandlers : ChannelClose(h)
  \/ \E f \in HistoryClients : HistoryConnect(f)
  \/ \E f \in HistoryClients : HistoryDisconnect(f)
  \/ \E kind \in {"history", "edges"} : CastStart(kind)
  \/ \E ok \in BOOLEAN : CastNext(ok)
  \/ CastEnd

SpecSockets == Init /\ [][NextSockets]_vars

\* C28: a frontend subscriber or an edge that connects or disconnects while
\* a broadcast is in progress does not abort the broadcast, and every
\* subscriber that stayed for the whole broadcast, and whose send did not
\* raise, has received the message when the broadcast is over
C28_BroadcastSurvivesChurn ==
  /\ cast.phase # "raised"
  /\ cast.phase = "done" => (cast.stayed \ cast.disconnected) \subseteq cast.got

NextChannels ==
  \/ \E kind \in ChannelKinds : \E id \in ChannelIds(kind) : ChannelOpen(kind, id)
  \/ \E h \in AllHandlers : ChannelClose(h)

SpecChannels == Init /\ [][NextChannels]_vars

\* C29: while a channel registered under an id is open and no later channel
\* has registered under that id, the table of its kind maps the id to that
\* channel; an older channel of the id that closes does not remove the entry
C29_LatestOpenChannelIsMapped ==
  \A h \in handlers :
    (/\ h.open
     /\ \A g \in handlers : (g.kind = h.kind /\ g.id = h.id) => g.ch <= h.ch)
    => /\ h.id \in DOMAIN channel_table[h.kind]
       /\ channel_table[h.kind][h.id] = h.ch

\* C30: every DELETE event from an edge channel that removes a history row,
\* found by its history_id or else by its event_id, is followed by the
\* fan-out of the deletion to the frontend subscribers, to the edges and, as
\* HISTORY_DELETE, to the peers
C30_EdgeDeleteFansOut ==
  \A env \in {e \in AdminEnvs : e.type = "DELETE"} :
    \A out \in handle_edge_websocket_event(db[Local], Local, env, now) :
      Len(out.db.history) < Len(db[Local].history) =>
        /\ out.front # <<>>
        /\ \E i \in 1..Len(out.cast) : out.cast[i].type = "DELETE"
        /\ \E i \in 1..Len(out.p2p) : out.p2p[i].type = "HISTORY_DELETE"

(***************************************************************************)
(* C31: the event_id of an EXIT                                            *)
(***************************************************************************)
\* the rows of d that the handler outcome out closed
ClosedRows(d, out) ==
  { d.history[i] : i \in { k \in 1..Len(d.history) :
      /\ d.history[k].status = "IN"
      /\ \E j \in 1..Len(out.db.history) :
           /\ out.db.history[j].id = d.history[k].id
           /\ out.db.history[j].status = "OUT" } }

\* C31: an EXIT on POST /api/edge/event that carries no event_id and closes
\* a row whose stored event_id is set returns that stored event_id and
\* broadcasts VEHICLE_EXIT with it; only for a row without event_id is a new
\* one generated
C31_ExitCarriesStoredEventId ==
  \A env \in {e \in ExitEnvs : e.event_id = NoEventId} :
    \A out \in receive_edge_event(db[Local], Local, env, now) :
      \A r \in ClosedRows(db[Local], out) :
        LET expected == IF r.event_id # NoEventId THEN r.event_id
                        ELSE ExitFallbackEventId(env.camera_id, now, r.plate_id)
        IN /\ out.result.event_id = expected
           /\ \A i \in 1..Len(out.p2p) : out.p2p[i].event_id = expected

(***************************************************************************)
(* C32: LOCATION_UPDATE for a plate that is not inside                     *)
(***************************************************************************)
\* C32: a LOCATION_UPDATE for a plate without an IN row adds a history row
\* only when the message carries is_anomaly = true: the envelopes of the
\* edges carry no is_anomaly, the peer messages carry either value
C32_AnomalyRowOnlyWhenFlagged ==
  /\ \A env \in {e \in ParkingLotEnvs : e.type = "LOCATION_UPDATE"} :
       InRows(db[Local], env.plate_text) = {}
         => \A out \in handle_edge_websocket_event(db[Local], Local, env, now) :
              out.db.history = db[Local].history
  /\ \A m \in PeerLocation :
       InRows(db[Local], m.plate_id) = {}
         => \A out \in _handle_message(db[Local], m, now) :
              IF m.is_anomaly
              THEN Len(out.db.history) = Len(db[Local].history) + 1
              ELSE out.db.history = db[Local].history

(***************************************************************************)
(* C33: the garbage collection of the vote buckets. One worker reads two   *)
(* boxes that fall into different buckets, every SweepTick ticks at most   *)
(***************************************************************************)
SweepBboxes == {<<100, 100, 60, 20>>, <<200, 100, 60, 20>>}
SweepTick == WindowTicks - 1

NextSweep ==
  \/ \E bbox \in SweepBboxes, plate_text \in TwinTexts : AddDetection("w1", bbox, plate_text)
  \/ \E d \in {SweepTick} : CameraTick(d)

SpecSweep == InitTracker /\ [][NextSweep]_vars

\* the trackers of worker w1 after add_detection(bbox, plate_text) at time t
TrackersAfter(trackers, bbox, plate_text, t) ==
  add_detection(trackers, min_votes, bbox, plate_text, t).trackers

\* C33 as stated: a bucket is removed only when no detection was addressed
\* to it during the preceding 2 * window_seconds, so a bucket addressed now
\* is stored after this call and after any call made less than
\* 2 * window_seconds later
C33_RemovedOnlyWhenUntouched ==
  \A bbox \in SweepBboxes, plate_text \in TwinTexts :
    /\ _get_bbox_key(bbox) \in DOMAIN TrackersAfter(tracker["w1"], bbox, plate_text, tnow)
    /\ \A dt \in {SweepTick, 2 * WindowTicks - 1}, later \in SweepBboxes :
         _get_bbox_key(bbox) \in
           DOMAIN TrackersAfter(TrackersAfter(tracker["w1"], bbox, plate_text, tnow),
                                later, plate_text, tnow + dt)

\* C33 amended: the garbage collection at the end of add_detection removes
\* exactly the buckets that were created more than 2 * window_seconds ago,
\* the bucket just addressed included; a detection addressed to a bucket
\* does not renew its first_seen
C33_RemovedWhenOlderThanTwoWindows ==
  \A bbox \in SweepBboxes, plate_text \in TwinTexts :
    \A k \in DOMAIN tracker["w1"] \cup {_get_bbox_key(bbox)} :
      LET first_seen == BucketOf(tracker["w1"], k, tnow).first_seen
          after == TrackersAfter(tracker["w1"], bbox, plate_text, tnow)
      IN /\ k \in DOMAIN after <=> tnow - first_seen <= 2 * WindowTicks
         /\ k \in DOMAIN after => after[k].first_seen = first_seen

\* a bucket that was created more than 2 * window_seconds ago and holds a
\* vote cast inside the last window is removed by the call that addresses it
C33_Witness ==
  \E bbox \in SweepBboxes, plate_text \in TwinTexts :
    /\ _get_bbox_key(bbox) \in DOMAIN tracker["w1"]
    /\ tnow - tracker["w1"][_get_bbox_key(bbox)].first_seen > 2 * WindowTicks
    /\ InWindow(tracker["w1"], _get_bbox_key(bbox), tnow) # <<>>
    /\ _get_bbox_key(bbox) \notin DOMAIN TrackersAfter(tracker["w1"], bbox, plate_text, tnow)

(***************************************************************************)
(* The OCR loops of the workers: w1 is a CameraWorker (RTSP), w2 is a      *)
(* VideoSourceWorker (video file)                                          *)
(***************************************************************************)
WorkerKind(w) == IF w = "w1" THEN "camera" ELSE "video"

\* the interval the OCR loop of worker w compares with: MIN_INTERVAL, read
\* from voting.dedup_interval, in CameraWorker._ocr_loop and the literal 5.0
\* in the loop of VideoSourceWorker
MinInterval(w) == IF WorkerKind(w) = "camera" THEN dedup_interval ELSE VIDEO_COOLDOWN

\* the test both loops make on a finalized plate at time t: it differs from
\* last_saved_plate, or more than the interval has passed since last_saved_ts
IsNewCommit(w, finalized_plate, t) ==
  \/ finalized_plate # last_saved[w].plate
  \/ t - last_saved[w].ts > MinInterval(w)

\* one turn of the OCR loop of worker w on a valid text read in bbox; ok is
\* what send_ocr_to_central returns. The camera worker saves the commit
\* with insert_ocr_log and sends it to the central; in the video worker both
\* calls raise TypeError (insert_ocr_log has no parameter confidence,
\* send_ocr_to_central lacks its plate_text), each is caught, and the loop
\* goes on to record the commit
OcrLoop(w, bbox, plate_text, ok) ==
  LET det == add_detection(tracker[w], min_votes, bbox, plate_text, tnow)
      commit == det.result # NoPlate /\ IsNewCommit(w, det.result, tnow)
      saves == commit /\ WorkerKind(w) = "camera"
  IN /\ StoredVotes(tracker[w]) < MaxVotes
     /\ saves => next_log_id <= MaxLogs
     /\ tracker' = [tracker EXCEPT ![w] = det.trackers]
     /\ last_saved' = IF commit
                      THEN [last_saved EXCEPT ![w] = [plate |-> det.result, ts |-> tnow]]
                      ELSE last_saved
     /\ ocr_logs' = IF saves
                    THEN insert_ocr_log(ocr_logs, next_log_id, w, det.result, tnow)
                    ELSE ocr_logs
     /\ next_log_id' = IF saves THEN next_log_id + 1 ELSE next_log_id
     /\ delivered' = IF saves /\ ok THEN [delivered EXCEPT ![next_log_id] = @ + 1]
                     ELSE delivered
     /\ UNCHANGED <<min_votes, tnow, unsynced, dedup_interval, central, dialing>>

\* time passes at the workers
WorkerTick(d) ==
  /\ tnow + d <= MaxWorkerTicks
  /\ tnow' = tnow + d
  /\ UNCHANGED <<min_votes, tracker, central, outbox, saving, dialing>>

\* values of voting.dedup_interval: 4 s and the default
DedupIntervals == {8, DEDUP_DEFAULT}

\* two plates that workers read
PlateA == TextBare
PlateB == TextNear

\* what the workers read: the camera sees plate A in one box and plate B in
\* another, the video shows plate A
Readings(w) ==
  IF WorkerKind(w) = "camera"
  THEN {<<(<<100, 100, 60, 20>>), PlateA>>, <<(<<200, 100, 60, 20>>), PlateB>>}
  ELSE {<<(<<100, 100, 60, 20>>), PlateA>>}

InitWorker ==
  /\ db = [c \in Centrals |-> EmptyDb]
  /\ now = 0
  /\ edges = [c \in Centrals |-> {}]
  /\ peers = [c \in Centrals |-> NoPeers]
  /\ net = [c \in Centrals |-> <<>>]
  /\ sent = NothingSent
  /\ min_votes \in {1, 2}
  /\ tracker = [w \in Workers |-> NoTrackers]
  /\ tnow = 0
  /\ OutboxInit
  /\ dedup_interval \in DedupIntervals
  /\ last_saved = [w \in Workers |-> NeverSaved]
  /\ delivered = [id \in 1..MaxLogs |-> 0]
  /\ SocketsInit

NextWorker ==
  \/ \E w \in Workers, ok \in {TRUE} : \E r \in Readings(w) : OcrLoop(w, r[1], r[2], ok)
  \/ \E d \in {VIDEO_COOLDOWN + 1} : WorkerTick(d)

SpecWorker == InitWorker /\ [][NextWorker]_vars

\* C34: in the camera worker and in the video worker a finalized plate is
\* committed only if it differs from last_saved_plate or more than
\* dedup_interval has passed since last_saved_ts, and so no two rows that a
\* worker saved for the same plate lie within dedup_interval of each other
C34_NoRepeatWithinDedupInterval ==
  /\ \A w \in Workers : \A r \in Readings(w) :
       LET finalized_plate == add_detection(tracker[w], min_votes, r[1], r[2], tnow).result
       IN (finalized_plate # NoPlate /\ IsNewCommit(w, finalized_plate, tnow))
            => \/ finalized_plate # last_saved[w].plate
               \/ tnow - last_saved[w].ts > dedup_interval
  /\ \A i, j \in 1..Len(ocr_logs) :
       (/\ i < j
        /\ ocr_logs[i].camera_id = ocr_logs[j].camera_id
        /\ ocr_logs[i].plate_text = ocr_logs[j].plate_text)
         => ocr_logs[j].timestamp - ocr_logs[i].timestamp > dedup_interval

(***************************************************************************)
(* C35: the drain loop under fair scheduling. The thread of _sync_loop     *)
(* keeps running: it fetches again after each batch, and an exception does *)
(* not interrupt every batch before its first send for ever                *)
(***************************************************************************)
SpecDrain ==
  /\ Init /\ [][NextOutbox]_vars
  /\ WF_vars(SyncFetch)
  /\ SF_vars(\E success \in BOOLEAN : SyncSend(success))

\* the row of a table with an id
RowOf(logs, log_id) == logs[CHOOSE i \in 1..Len(logs) : logs[i].id = log_id]

\* what a send of the drain loop does to the row it is made for
AttemptEffect ==
  LET log_id == unsynced[1].id
  IN /\ \A k \in 2..Len(unsynced) : unsynced[k].id > log_id
     /\ \A id \in LogIds(ocr_logs) \ {log_id} :
          id \in LogIds(ocr_logs') /\ RowOf(ocr_logs', id) = RowOf(ocr_logs, id)
     /\ log_id \in LogIds(ocr_logs) =>
          \/ log_id \notin LogIds(ocr_logs')
          \/ /\ log_id \in LogIds(ocr_logs')
             /\ RowOf(ocr_logs', log_id) =
                  [RowOf(ocr_logs, log_id) EXCEPT !.retry_count = @ + 1]

\* C35: every send of the drain loop is made for the oldest row of its
\* batch and either deletes that row or adds exactly one to its
\* retry_count, leaving the other rows as they are; and under fair
\* scheduling every row of the outbox is eventually deleted or has
\* retry_count = 5
C35_DrainSettlesEveryRow ==
  /\ [][(\E success \in BOOLEAN : SyncSend(success)) => AttemptEffect]_vars
  /\ \A id \in 1..MaxLogs :
       (id \in LogIds(ocr_logs))
         ~> (id \notin LogIds(ocr_logs) \/ RowOf(ocr_logs, id).retry_count = RETRY_CAP)

\* one row was delivered by the drain loop and deleted, another has failed
\* five times and stays in the table
C35_Witness ==
  /\ \E id \in 1..MaxLogs :
       id < next_log_id /\ id \notin LogIds(ocr_logs) /\ delivered[id] = 1
  /\ \E id \in LogIds(ocr_logs) : RowOf(ocr_logs, id).retry_count = RETRY_CAP

(***************************************************************************)
(* The P2P clients of central c1: P2PClient and P2PManager.reload_config   *)
(***************************************************************************)

\* P2PClient.__init__
P2PClient(peer_id) == [peer_id |-> peer_id, running |-> FALSE, connected |-> FALSE, websocket |-> FALSE, at |-> "new", stopped |-> FALSE, late |-> {}]

\* P2PClient.start: running = True, and the _connection_loop task is created
start(c) == [c EXCEPT !.running = TRUE, !.at = "loop"]

\* P2PClient.stop up to `await self.websocket.close()`; with websocket None
\* the call does not suspend and runs to its return
stop_enter(c) == IF c.websocket THEN [c EXCEPT !.running = FALSE] ELSE [c EXCEPT !.running = FALSE, !.connected = FALSE, !.stopped = TRUE]

\* P2PClient.stop once close() has returned
stop_leave(c) == [c EXCEPT !.connected = FALSE, !.stopped = TRUE]

\* what a client does after a stop() call on it has returned is kept in late
Late(c, deeds) == IF c.stopped THEN [c EXCEPT !.late = @ \cup deeds] ELSE c

\* del d[k] and d[k] = v on a dict
Del(d, k) == [x \in DOMAIN d \ {k} |-> d[x]]
Put(d, k, v) == [x \in DOMAIN d \cup {k} |-> IF x = k THEN v ELSE d[x]]

\* the P2PClient objects a dict holds, and the objects constructed so far
Objects(d) == {d[k] : k \in DOMAIN d}
Made(cl) == {o \in 1..MaxClients : cl[o].at # "none"}

\* the orders in which `for peer_id in removed_peers` can visit a set
Orders(S) == {q \in [1..Cardinality(S) -> S] : \A i, j \in 1..Cardinality(S) : q[i] = q[j] => i = j}

\* the order of peer_centrals in the configuration file
PeerOrder == <<"c2", "c3">>

LeastOf(S) == CHOOSE o \in S : \A x \in S : o <= x

\* reload_config, `for peer in new_peers`: a client is built, stored and
\* started for every added peer; start() does not suspend
AddClient(s, peer_id, o) == [s EXCEPT !.clients = Put(@, peer_id, o), !.client[o] = start(P2PClient(peer_id)), !.started = @ \cup {o}]

RECURSIVE start_added(_, _)
start_added(s, i) ==
  IF i > Len(PeerOrder) THEN [s EXCEPT !.how = "returned"]
  ELSE IF PeerOrder[i] \in s.task.new_peer_ids \ DOMAIN s.task.before
       THEN IF Cardinality(Made(s.client)) = MaxClients
            THEN [s EXCEPT !.how = "bound"]
            ELSE start_added(AddClient(s, PeerOrder[i], Cardinality(Made(s.client)) + 1), i + 1)
       ELSE start_added(s, i + 1)

\* reload_config from the top of one of its two loops up to the next
\* suspension, exception or return.  The standalone loop walks the live dict
\* in insertion order and raises RuntimeError when its size has changed;
\* the other loop walks the set removed_peers and looks each id up
RECURSIVE standalone_loop(_, _)
standalone_loop(s, rest) ==
  IF Cardinality(DOMAIN s.clients) # s.task.size THEN [s EXCEPT !.how = "RuntimeError"]
  ELSE IF rest = {} THEN [s EXCEPT !.clients = <<>>, !.how = "returned"]
  ELSE IF s.client[LeastOf(rest)].websocket
       THEN [s EXCEPT !.client[LeastOf(rest)] = stop_enter(@), !.task.last = LeastOf(rest), !.how = "suspended"]
       ELSE standalone_loop([s EXCEPT !.client[LeastOf(rest)] = stop_enter(@), !.task.last = LeastOf(rest)], rest \ {LeastOf(rest)})

RECURSIVE removed_loop(_)
removed_loop(s) ==
  IF s.task.todo = <<>> THEN start_added(s, 1)
  ELSE IF Head(s.task.todo) \notin DOMAIN s.clients THEN [s EXCEPT !.how = "KeyError"]
  ELSE IF s.client[s.clients[Head(s.task.todo)]].websocket
       THEN [s EXCEPT !.client[s.clients[Head(s.task.todo)]] = stop_enter(@), !.task.last = s.clients[Head(s.task.todo)], !.how = "suspended"]
       ELSE removed_loop([s EXCEPT !.client[s.clients[Head(s.task.todo)]] = stop_enter(@), !.clients = Del(@, Head(s.task.todo)), !.task.todo = Tail(@)])

\* P2PManager.reload_config from its first line
reload_config(config, d, cl, order) ==
  IF config = {}
  THEN standalone_loop([task |-> [mode |-> "standalone", new_peer_ids |-> {}, before |-> d, todo |-> <<>>, last |-> 0, size |-> Cardinality(DOMAIN d)], clients |-> d, client |-> cl, started |-> {}, how |-> "running"], Objects(d))
  ELSE removed_loop([task |-> [mode |-> "diff", new_peer_ids |-> config, before |-> d, todo |-> order, last |-> 0, size |-> Cardinality(DOMAIN d)], clients |-> d, client |-> cl, started |-> {}, how |-> "running"])

\* reload_config from the return of the stop() call it was suspended in
reload_resume(task, d, cl) ==
  IF task.mode = "standalone"
  THEN standalone_loop([task |-> task, clients |-> d, client |-> [cl EXCEPT ![task.last] = stop_leave(@)], started |-> {}, how |-> "running"], {o \in Objects(d) : o > task.last})
  ELSE IF Head(task.todo) \notin DOMAIN d
       THEN [task |-> task, clients |-> d, client |-> [cl EXCEPT ![task.last] = stop_leave(@)], started |-> {}, how |-> "KeyError"]
       ELSE removed_loop([task |-> [task EXCEPT !.todo = Tail(@)], clients |-> Del(d, Head(task.todo)), client |-> [cl EXCEPT ![task.last] = stop_leave(@)], started |-> {}, how |-> "running"])

\* the reload_config tasks without task i
OtherReloads(i) == [k \in 1..(Len(reloads) - 1) |-> IF k < i THEN reloads[k] ELSE reloads[k + 1]]

\* the state after a reload_config task has run up to s; i = 0 for a task
\* in its first run
Settle(s, i) ==
  /\ s.how # "bound"
  /\ p2p_clients' = s.clients
  /\ client' = s.client
  /\ IF s.how = "suspended"
     THEN /\ reloads' = IF i = 0 THEN Append(reloads, s.task) ELSE [reloads EXCEPT ![i] = s.task]
          /\ Len(reloads') <= MaxReloads
          /\ UNCHANGED finished
     ELSE /\ reloads' = IF i = 0 THEN reloads ELSE OtherReloads(i)
          /\ finished' = [how |-> s.how, new_peer_ids |-> s.task.new_peer_ids, before |-> s.task.before, after |-> s.clients, started |-> s.started]

\* POST /register-peer: the peer is added to peer_centrals (or updated), the
\* configuration is saved, and create_task(reload_config()) runs the reload
\* up to its first suspension before the event loop handles anything else
RegisterPeer(peer_id) ==
  /\ config_peers' = config_peers \cup {peer_id}
  /\ \E order \in Orders(DOMAIN p2p_clients \ config_peers') :
       Settle(reload_config(config_peers', p2p_clients, client, order), 0)
  /\ UNCHANGED <<central, camera>>

\* POST /unregister-peer: 404 for a peer that is not configured
UnregisterPeer(peer_id) ==
  /\ peer_id \in config_peers
  /\ config_peers' = config_peers \ {peer_id}
  /\ \E order \in Orders(DOMAIN p2p_clients \ config_peers') :
       Settle(reload_config(config_peers', p2p_clients, client, order), 0)
  /\ UNCHANGED <<central, camera>>

\* websocket.close() returns in a suspended reload_config: the connection of
\* the client it is stopping has closed
ReloadResume(i) ==
  /\ i \in 1..Len(reloads)
  /\ client[reloads[i].last].at # "listening"
  /\ Settle(reload_resume(reloads[i], p2p_clients, client), i)
  /\ UNCHANGED <<config_peers, central, camera>>

\* _connection_loop at `while self.running`, on its first turn or after the
\* reconnect sleep: _connect is entered and websockets.connect awaited
ClientLoop(o) ==
  /\ client[o].at = "loop"
  /\ client' = [client EXCEPT ![o].at = IF client[o].running THEN "handshake" ELSE "ended"]
  /\ UNCHANGED <<config_peers, p2p_clients, reloads, finished, central, camera>>

\* _connect once websockets.connect has answered.  ok: websocket is set, the
\* identification sent, connected = True and on_connected awaited, whatever
\* running is; otherwise the finally block runs and the loop goes on
ClientHandshake(o, ok) ==
  /\ client[o].at = "handshake"
  /\ client' = [client EXCEPT ![o] =
       IF ok THEN Late([@ EXCEPT !.websocket = TRUE, !.connected = TRUE, !.at = "listening"], {"connected", "on_connected"})
       ELSE [@ EXCEPT !.websocket = FALSE, !.connected = FALSE, !.at = IF client[o].running THEN "loop" ELSE "ended"]]
  /\ UNCHANGED <<config_peers, p2p_clients, reloads, finished, central, camera>>

\* `async for message in websocket`: _process_message awaits on_message
ClientReceive(o) ==
  /\ client[o].at = "listening"
  /\ client' = [client EXCEPT ![o] = Late(@, {"on_message"})]
  /\ UNCHANGED <<config_peers, p2p_clients, reloads, finished, central, camera>>

\* the connection closes, by the peer or by stop(): the finally block of
\* _connect, then the loop sleeps when running and ends otherwise
ClientClosed(o) ==
  /\ client[o].at = "listening"
  /\ client' = [client EXCEPT ![o] = [@ EXCEPT !.websocket = FALSE, !.connected = FALSE, !.at = IF client[o].running THEN "loop" ELSE "ended"]]
  /\ UNCHANGED <<config_peers, p2p_clients, reloads, finished, central, camera>>

NextReload ==
  \/ \E peer_id \in PeerIds : RegisterPeer(peer_id)
  \/ \E peer_id \in PeerIds : UnregisterPeer(peer_id)
  \/ \E i \in 1..MaxReloads : ReloadResume(i)
  \/ \E o \in 1..MaxClients : ClientLoop(o)
  \/ \E o \in 1..MaxClients, ok \in BOOLEAN : ClientHandshake(o, ok)
  \/ \E o \in 1..MaxClients : ClientReceive(o)
  \/ \E o \in 1..MaxClients : ClientClosed(o)

SpecReload == Init /\ [][NextReload]_vars

\* C36: when a reload_config call has returned, the peer ids with a client
\* are the peer ids of the configuration it loaded; the clients of the
\* removed peers are stopped, the clients of the added peers are new and
\* started, and the clients of the peers it kept are the objects they were
C36_ClientsMatchConfiguration ==
  finished.how = "returned" =>
    /\ DOMAIN finished.after = finished.new_peer_ids
    /\ \A id \in DOMAIN finished.before \ finished.new_peer_ids :
         client[finished.before[id]].stopped /\ ~client[finished.before[id]].running
    /\ \A id \in finished.new_peer_ids \ DOMAIN finished.before :
         id \in DOMAIN finished.after /\ finished.after[id] \in finished.started
    /\ \A id \in DOMAIN finished.before \cap finished.new_peer_ids :
         id \in DOMAIN finished.after /\ finished.after[id] = finished.before[id]

\* C40: a client on which stop() has returned does not become connected,
\* does not call on_connected and does not dispatch an inbound message
C40_StoppedClientStaysSilent ==
  \A o \in 1..MaxClients : client[o].late = {}

(***************************************************************************)
(* The camera worker's direct send together with the outbox drain loop     *)
(***************************************************************************)

\* the OCR loop of the camera worker and the _sync_loop thread of the
\* CentralSyncService that unified_app/app.py starts next to it, the camera
\* reading one plate; ok and success are the answers of /api/edge/ocr to
\* the two senders
NextDelivery ==
  \/ \E w \in {"w1"}, ok \in BOOLEAN : OcrLoop(w, <<100, 100, 60, 20>>, PlateA, ok)
  \/ \E d \in {VIDEO_COOLDOWN + 1} : WorkerTick(d)
  \/ SyncFetch
  \/ \E success \in BOOLEAN : SyncSend(success)
  \/ SyncError

SpecDelivery == Init /\ [][NextDelivery]_vars

\* C39: a plate committed by one insert_ocr_log call is delivered with
\* success to /api/edge/ocr at most once, the worker's direct send and the
\* sends of the drain loop counted together
C39_DeliveredAtMostOnce ==
  \A id \in 1..MaxLogs : delivered[id] <= 1

(***************************************************************************)
(* The history_changes rows of one UPDATE event of an edge                 *)
(***************************************************************************)

\* the UPDATE envelopes of AdminEnvs
UpdateEnvs == {env \in AdminEnvs : env.type = "UPDATE"}

\* the plate_id of the history row with this id
PlateOf(d, history_id) == (CHOOSE r \in get_history_entry_by_id(d, history_id) : TRUE).plate_id

\* C38: an UPDATE from an edge that resolves to a history row adds exactly
\* one history_changes row, and the old plate and the old snapshot of that
\* row carry the plate the history row had before the event
C38_UpdateWritesOneChange ==
  \A env \in UpdateEnvs :
    \A out \in handle_edge_websocket_event(db[Local], Local, env, now) :
      out.result.success =>
        /\ Len(out.db.changes) = Len(db[Local].changes) + 1
        /\ out.db.changes[Len(out.db.changes)].old_plate_id = PlateOf(db[Local], out.result.history_id)
        /\ LoadSnapshot(out.db.changes[Len(out.db.changes)].old_data[1]).plate_id = PlateOf(db[Local], out.result.history_id)

(***************************************************************************)
(* Admin edits between two centrals that number their rows independently   *)
(***************************************************************************)

\* both centrals take entries and gossip them, and the admin of c1 edits and
\* deletes rows there
NextEdits ==
  \/ \E c \in Centrals, env \in MeshEnvs : HttpEvent(c, env)
  \/ \E h \in 1..MaxRows, p \in PlateIds : AdminPut(Local, h, p)
  \/ \E h \in 1..MaxRows : AdminDelete(Local, h)
  \/ \E c \in Centrals : Deliver(c)

SpecEdits == InitMesh /\ [][NextEdits]_vars

\* every row of d that describes another visit than event_id is in after
\* as it was
OtherVisitsKept(d, after, event_id) ==
  \A r \in SeqToSet(d.history) : r.event_id # event_id => r \in SeqToSet(after.history)

\* the messages PUT and DELETE /api/parking/history/{history_id} send
EditMessages(d, central_id, history_id) ==
  UNION { SeqToSet(put_history_entry(d, central_id, history_id, p, p).p2p) : p \in PlateIds }
  \cup SeqToSet(delete_history_route(d, central_id, history_id).p2p)

\* C37: the HISTORY_UPDATE or HISTORY_DELETE that central c1 sends for an
\* edit of one of its rows changes, on the central that receives it, no row
\* of another visit (another event_id) than the row the admin edited
C37_PeerEditTouchesSameVisit ==
  \A r \in SeqToSet(db[Local].history) :
    \A m \in EditMessages(db[Local], Local, r.id) :
      \A out \in _handle_message(db[Remote], m, now) :
        OtherVisitsKept(db[Remote], out.db, r.event_id)

====
